---- MODULE Spec2Model ----
(***************************************************************************)
(* Post service: the cached_valid_users table fed by the user-lifecycle    *)
(* consumer, the validation gate of createPost / likePost, and the         *)
(* post / like tables behind the HTTP handlers.                            *)
(*                                                                         *)
(* Every action is one atomic piece of a handler: the code between two     *)
(* awaits of a database (or broker) call, together with the statement the  *)
(* database executes for it.  Requests run in slots, so the handlers of    *)
(* two requests and of the consumer interleave at their awaits.            *)
(***************************************************************************)
EXTENDS Integers, Sequences, FiniteSets, TLC

(* ------------------------------------------------------------------ *)
(* Bounds of the model                                                  *)
(* ------------------------------------------------------------------ *)
\* number of requests that can be in flight at once
MaxReqs == 2
\* values the posts_post_id_seq sequence may hand out
MaxPosts == 2
\* values the likes_like_id_seq sequence may hand out
MaxLikes == 2
\* calls of startUserEventsConsumer / stopUserEventsConsumer in flight at once
MaxCalls == 2
\* consumers kafka.consumer() is asked for in one run
MaxClients == 3

Slots == 1..MaxReqs

(* ------------------------------------------------------------------ *)
(* JavaScript values: strings are sequences of characters               *)
(* ------------------------------------------------------------------ *)
Undefined == [t |-> "undefined"]
Str(s) == [t |-> "string", v |-> s]
NumV(n) == [t |-> "number", v |-> n]

Digits == <<"0", "1", "2", "3", "4", "5", "6", "7", "8", "9">>
IsDigit(c) == \E d \in 1..10 : Digits[d] = c
DigitVal(c) == (CHOOSE d \in 1..10 : Digits[d] = c) - 1

\* the number NaN, and a finite number
NaN == [nan |-> TRUE, n |-> 0]
Finite(n) == [nan |-> FALSE, n |-> n]
isNaN(x) == x.nan

\* length of the longest prefix of s made of digits
RECURSIVE DigitPrefixLen(_)
DigitPrefixLen(s) ==
  IF s = <<>> \/ ~IsDigit(Head(s)) THEN 0 ELSE 1 + DigitPrefixLen(Tail(s))

RECURSIVE DigitsValue(_, _)
DigitsValue(s, acc) ==
  IF s = <<>> THEN acc ELSE DigitsValue(Tail(s), 10 * acc + DigitVal(Head(s)))

RECURSIVE SkipSpaces(_)
SkipSpaces(s) == IF s # <<>> /\ Head(s) = " " THEN SkipSpaces(Tail(s)) ELSE s

\* parseInt(s, 10): leading white space and one sign are skipped, the longest
\* run of digits is read and whatever follows is ignored; no digit gives NaN
parseInt10(s) ==
  LET t == SkipSpaces(s)
      neg == t # <<>> /\ Head(t) = "-"
      u == IF t # <<>> /\ Head(t) \in {"-", "+"} THEN Tail(t) ELSE t
      k == DigitPrefixLen(u)
  IN IF k = 0 THEN NaN
     ELSE LET m == DigitsValue(SubSeq(u, 1, k), 0)
          IN Finite(IF neg THEN 0 - m ELSE m)

\* parseInt of a JavaScript value: the argument is converted to a string first
RECURSIVE NatToString(_)
NatToString(n) ==
  IF n < 10 THEN <<Digits[n + 1]>>
  ELSE NatToString(n \div 10) \o <<Digits[(n % 10) + 1]>>

\* Number.prototype.toString() of an integer
toString(n) == IF n < 0 THEN <<"-">> \o NatToString(0 - n) ELSE NatToString(n)

\* String(v)
String(v) ==
  CASE v.t = "string" -> v.v
    [] v.t = "number" -> toString(v.v)
    [] OTHER -> <<"u", "n", "d", "e", "f", "i", "n", "e", "d">>

\* !v is false
Truthy(v) ==
  CASE v.t = "string" -> v.v # <<>>
    [] v.t = "number" -> v.v # 0
    [] OTHER -> FALSE

(* ------------------------------------------------------------------ *)
(* Inputs                                                               *)
(* ------------------------------------------------------------------ *)
\* user identifiers: two decimal ones, one that only starts with a digit
\* and one without any digit
UserIds == { <<"1">>, <<"2">>, <<"1", "a">>, <<"b">> }

UserCreated == <<"U", "s", "e", "r", "C", "r", "e", "a", "t", "e", "d">>
UserUpdated == <<"U", "s", "e", "r", "U", "p", "d", "a", "t", "e", "d">>
UserDeleted == <<"U", "s", "e", "r", "D", "e", "l", "e", "t", "e", "d">>
UserLocked == <<"U", "s", "e", "r", "L", "o", "c", "k", "e", "d">>
EventTypes == { UserCreated, UserUpdated, UserDeleted }

\* message.value of a record of the user-lifecycle topic: null, a text that is
\* not JSON, or the JSON text of an object
NoValue == [kind |-> "null"]
BadJson == [kind |-> "text"]
Event(type, userId, ts) ==
  [kind |-> "json", eventType |-> type, userId |-> userId, timestamp |-> ts]
Timestamps == {1, 2}
Messages ==
  { NoValue, BadJson }
    \cup { Event(Str(UserLocked), Str(u), 1) : u \in UserIds }
    \cup { Event(Undefined, Str(u), 1) : u \in UserIds }
    \cup { Event(Str(UserCreated), Undefined, 1), Event(Str(UserDeleted), Str(<<>>), 1) }
    \cup { Event(Str(ty), Str(u), ts) :
             ty \in EventTypes, u \in UserIds, ts \in Timestamps }

(* ------------------------------------------------------------------ *)
(* State                                                                *)
(* ------------------------------------------------------------------ *)
VARIABLES
  cache,       \* table cached_valid_users: the set of its user_id values
  posts,       \* table posts: rows [postId, userId, title, content]
  likes,       \* table likes: rows [likeId, userId, postId]
  postSeq,     \* last value handed out by the post_id sequence
  likeSeq,     \* last value handed out by the like_id sequence
  published,   \* records sent to the post_events topic, in order
  req,         \* the requests in flight, by slot
  lastHandled, \* per user, the last lifecycle event the consumer handled
  deletedPosts, \* post ids whose row has been deleted
  upstream,    \* the userIds that exist in the user service
  topic,       \* lifecycle events produced upstream and not yet delivered
  consumer,    \* the ingestor: how far startUserEventsConsumer has come
  startup,     \* how far startService has come
  listening,   \* the HTTP server accepts connections
  dropped,     \* the last record the handler dropped without a statement
  consumerRef, \* the variable consumer of consumer.ts: 0 (null) or a consumer
  clients,     \* the consumers kafka.consumer() has made, by number: their state
  calls        \* the calls of start/stopUserEventsConsumer in flight, by caller

dbVars == <<cache, posts, likes, postSeq, likeSeq>>
\* what no request handler touches: the user service and its topic, and the
\* life cycle of the process
process == <<consumer, startup, listening>>
\* the consumer module in detail, followed by SpecConsumer alone: the other
\* specifications follow the ingestor through consumer and leave these as
\* they start
ingestor == <<consumerRef, clients, calls>>
runtime == <<upstream, topic, process, dropped, ingestor>>
vars == <<cache, posts, likes, postSeq, likeSeq, published, req, lastHandled,
          deletedPosts, upstream, topic, consumer, startup, listening, dropped,
          consumerRef, clients, calls>>

Idle == [pc |-> "idle"]

\* dropped before any record was
NoDrop == [kind |-> "none"]

\* values of lastHandled besides the event types
NotHandled == <<"n", "o", "n", "e">>
WriteFailed == <<"f", "a", "i", "l", "e", "d">>

\* the service after startService has come through: the consumer runs, the
\* HTTP server listens and the tables are empty
Init ==
  /\ cache = {}
  /\ posts = {}
  /\ likes = {}
  /\ postSeq = 0
  /\ likeSeq = 0
  /\ published = <<>>
  /\ req = [i \in Slots |-> Idle]
  /\ lastHandled = [u \in UserIds |-> NotHandled]
  /\ deletedPosts = {}
  /\ upstream = {}
  /\ topic = <<>>
  /\ consumer = "Running"
  /\ startup = "serving"
  /\ listening = TRUE
  /\ dropped = NoDrop
  /\ consumerRef = 0
  /\ clients = <<>>
  /\ calls = [k \in 1..MaxCalls |-> [fn |-> "none", pc |-> "idle"]]

(* ------------------------------------------------------------------ *)
(* CachedUserRepository: the statements of the cache store              *)
(* ------------------------------------------------------------------ *)
\* INSERT ... ON CONFLICT (user_id) DO UPDATE SET updated_at = now
addCachedUser(c, userId) == c \cup {userId}

\* DELETE FROM cached_valid_users WHERE user_id = $1
removeCachedUser(c, userId) == c \ {userId}

\* SELECT * FROM cached_valid_users WHERE user_id = $1: is there a row
findCachedUserById(c, userId) == userId \in c

(* ------------------------------------------------------------------ *)
(* The user-lifecycle consumer                                          *)
(* ------------------------------------------------------------------ *)
\* a check for undefined only: an event whose userId is the empty string
\* is applied, and MalformedIsDropped fails
MalformedIfUndefined(m) == m.userId = Undefined \/ m.eventType = Undefined

\* the event is dropped as malformed
Malformed(m) == ~Truthy(m.userId) \/ ~Truthy(m.eventType)

\* a consumer that drops an event older than the newest timestamp: not what
\* the switch does, and CacheReflectsLastEvent tells the two apart
DispatchByTimestamp(c, event) ==
  IF event.timestamp < 2 THEN c
  ELSE CASE event.eventType.v = UserDeleted -> removeCachedUser(c, event.userId.v)
         [] OTHER -> addCachedUser(c, event.userId.v)

\* a switch whose case of UserUpdated removes the row: a row is then
\* destroyed by another event than UserDeleted, and OnlyEventsChangeTheCache fails
DispatchUpdatedRemoves(c, event) ==
  CASE event.eventType.v = UserCreated -> addCachedUser(c, event.userId.v)
    [] OTHER -> removeCachedUser(c, event.userId.v)

\* a switch without the case of UserUpdated: DispatchByType fails on it
DispatchWithoutUpdated(c, event) ==
  CASE event.eventType.v = UserCreated -> addCachedUser(c, event.userId.v)
    [] event.eventType.v = UserDeleted -> removeCachedUser(c, event.userId.v)
    [] OTHER -> c

\* the switch on event.eventType: the cache after the statement it issues
Dispatch(c, event) ==
  CASE event.eventType.v = UserCreated -> addCachedUser(c, event.userId.v)
    [] event.eventType.v = UserDeleted -> removeCachedUser(c, event.userId.v)
    [] event.eventType.v = UserUpdated -> addCachedUser(c, event.userId.v)
    [] OTHER -> c

\* the event reaches a case of the switch that issues a statement
Dispatched(m) ==
  m.kind = "json" /\ ~Malformed(m) /\ m.eventType.v \in EventTypes

\* a plain INSERT, without ON CONFLICT: the insert of a user_id that is
\* present violates the primary key, and SameEventTwice fails
ThrowsOnDuplicate(c, event) ==
  event.eventType.v \in {UserCreated, UserUpdated} /\ event.userId.v \in c

\* the statement of the event is refused by a database that is up: never,
\* as INSERT ... ON CONFLICT (user_id) DO UPDATE accepts a user_id that is
\* present, and a DELETE that matches no row is no error (removeCachedUser
\* then resolves with false)
Throws(c, event) == FALSE

\* the statement of the event is issued and succeeds
Written(c, m, dbOk) == Dispatched(m) /\ dbOk /\ ~Throws(c, m)

\* handleUserLifecycleEvent on one delivered message; dbOk is whether the
\* database answers the statement it issues (a failure is caught and logged)
HandleCache(m, dbOk) ==
  cache' = IF Written(cache, m, dbOk) THEN Dispatch(cache, m) ELSE cache

\* the record of the handled event, per user
Recorded(m, dbOk) ==
  lastHandled' =
    IF Dispatched(m) /\ m.userId.v \in UserIds
    THEN [lastHandled EXCEPT
            ![m.userId.v] = IF Written(cache, m, dbOk) THEN m.eventType.v
                            ELSE WriteFailed]
    ELSE lastHandled

\* the consumer handles message m, as part of the whole service
handleUserLifecycleEvent(m, dbOk) ==
  /\ HandleCache(m, dbOk)
  /\ UNCHANGED <<posts, likes, postSeq, likeSeq, published, req,
                 lastHandled, runtime, deletedPosts>>

\* the same handler, with the handled event recorded per user
ConsumeRecorded(m, dbOk) ==
  /\ HandleCache(m, dbOk)
  /\ Recorded(m, dbOk)
  /\ UNCHANGED <<posts, likes, postSeq, likeSeq, published, req, deletedPosts,
                 runtime>>

(* ------------------------------------------------------------------ *)
(* PostRepository: the statements on posts and likes                    *)
(* ------------------------------------------------------------------ *)
LikesOfPost(ls, postId) == { l \in ls : l.postId = postId }

\* toPost: the row as the API returns it, ids as strings
toPost(row, likeCount, hasUserLiked) ==
  [postId |-> toString(row.postId), userId |-> toString(row.userId),
   title |-> row.title, content |-> row.content,
   likeCount |-> likeCount, hasUserLiked |-> hasUserLiked]

\* toLike
toLike(row) ==
  [likeId |-> toString(row.likeId), userId |-> toString(row.userId),
   postId |-> toString(row.postId)]

\* the hasUserLiked attribute getPostFindOptions adds for a requesting user
hasLikedSubquery(ls, postId, requestingUserId) ==
  /\ Truthy(requestingUserId)
  /\ ~isNaN(parseInt10(String(requestingUserId)))
  /\ \E l \in ls : l.postId = postId
                   /\ l.userId = parseInt10(String(requestingUserId)).n

\* findPostById: the post with its aggregates, or undefined
findPostById(ps, ls, postId, requestingUserId) ==
  LET numericPostId == parseInt10(postId)
  IN IF isNaN(numericPostId) THEN Undefined
     ELSE IF \E row \in ps : row.postId = numericPostId.n
          THEN LET row == CHOOSE r \in ps : r.postId = numericPostId.n
               IN toPost(row, Cardinality(LikesOfPost(ls, row.postId)),
                         hasLikedSubquery(ls, row.postId, requestingUserId))
          ELSE Undefined

\* findLikeByUserAndPost: the like of that pair, or undefined
findLikeByUserAndPost(ls, userId, postId) ==
  LET numericUserId == parseInt10(userId)
      numericPostId == parseInt10(postId)
  IN IF isNaN(numericUserId) \/ isNaN(numericPostId) THEN Undefined
     ELSE IF \E l \in ls : l.userId = numericUserId.n /\ l.postId = numericPostId.n
          THEN toLike(CHOOSE l \in ls :
                        l.userId = numericUserId.n /\ l.postId = numericPostId.n)
          ELSE Undefined

\* countLikesForPost
countLikesForPost(ls, postId) ==
  LET numericPostId == parseInt10(postId)
  IN IF isNaN(numericPostId) THEN 0
     ELSE Cardinality(LikesOfPost(ls, numericPostId.n))

(* ------------------------------------------------------------------ *)
(* Requests                                                             *)
(* ------------------------------------------------------------------ *)
\* Besides what the handler holds, a request records what happened to it:
\* userExists (the outcome of the lookup of the gate), conflict, sent,
\* affected, fault (a call to the database failed) and stale (the cache held
\* no row of the user when the request wrote its row).
Unset == [t |-> "unset"]
NoTx == [open |-> FALSE, likes |-> {}, post |-> FALSE]
NoRes == [status |-> 0, message |-> "", body |-> Undefined]

\* an HTTP request as the router hands it to the controller
Request(op, auth, postId, body) ==
  [pc |-> "begin", op |-> op, auth |-> auth, postId |-> postId, body |-> body,
   existing |-> Unset, userExists |-> "unset", created |-> Undefined,
   conflict |-> Undefined, sent |-> FALSE, affected |-> 0, fault |-> FALSE,
   stale |-> FALSE, tx |-> NoTx, res |-> NoRes]

NoBody == [userId |-> Undefined, title |-> Undefined, content |-> Undefined]

\* res.status(status).json({ message }) or .json(body): the request is over
Reply(r, status, message, body) ==
  [r EXCEPT !.pc = "done", !.body = NoBody, !.tx = NoTx,
            !.res = [status |-> status, message |-> message, body |-> body]]

At(i, pc) == req[i].pc = pc
Op(i, op) == req[i].pc # "idle" /\ req[i].op = op

\* a request arrives in a free slot (one whose last request is over)
Receive(i, op, auth, postId, body) ==
  /\ req[i].pc \in {"idle", "done"}
  /\ req' = [req EXCEPT ![i] = Request(op, auth, postId, body)]
  /\ UNCHANGED <<cache, posts, likes, postSeq, likeSeq, published,
                 lastHandled, runtime, deletedPosts>>

\* the catch of the controller: Internal server error
InternalError(r) == Reply(r, 500, "Internal server error", Undefined)

\* the same after a call to the database has failed (fault records that)
StorageError(r) == InternalError([r EXCEPT !.fault = TRUE])

\* authMiddleware: no authenticated user, no handler
Unauthorized(r) ==
  Reply(r, 401,
        IF r.op \in {"likePost", "unlikePost"} THEN "Unauthorized"
        ELSE "Unauthorized: Missing authentication",
        Undefined)

(* ------------------------------------------------------------------ *)
(* POST /posts                                                          *)
(* ------------------------------------------------------------------ *)
\* a controller without the comparison of the two ids: MismatchIsForbidden
\* tells it from the one of createPost
BodyUserIdUnchecked(b, auth) == FALSE

\* String(req.body.userId) !== String(authUserId)
BodyUserIdMismatch(b, auth) == String(b.userId) # String(auth)

\* the two checks of the controller on the body, in the order it makes them:
\* the userId against the authenticated user, then the required fields
CheckBody(b, auth) ==
  IF BodyUserIdMismatch(b, auth) THEN "mismatch"
  ELSE IF ~Truthy(b.userId) \/ ~Truthy(b.title) \/ ~Truthy(b.content)
  THEN "missing"
  ELSE "ok"

\* PostController.createPost up to the first await of PostService.createPost
CreatePostBegin(i) ==
  /\ At(i, "begin") /\ Op(i, "createPost")
  /\ LET r == req[i]
         b == r.body
         checked == CheckBody(b, r.auth)
     IN req' = [req EXCEPT ![i] =
          IF ~Truthy(r.auth) THEN Unauthorized(r)
          ELSE IF checked = "mismatch"
          THEN Reply(r, 403, "Forbidden: Cannot create post for another user",
                     Undefined)
          ELSE IF checked = "missing"
          THEN Reply(r, 400, "Missing required fields: userId, title, content",
                     Undefined)
          ELSE IF b.userId # r.auth
          THEN Reply(r, 403, "Forbidden", Undefined)
          ELSE [r EXCEPT !.pc = "createPost.gate"]]
  /\ UNCHANGED <<cache, posts, likes, postSeq, likeSeq, published,
                 lastHandled, runtime, deletedPosts>>

\* a lookup whose failure is answered like a miss: GateReadFailureFailsClosed
\* tells it from the lookup of the gate
GateReadFailedAsMiss(r) ==
  Reply([r EXCEPT !.userExists = "error"],
        IF r.op = "createPost" THEN 400 ELSE 404, "User not found", Undefined)

\* findCachedUserById rejects: it rethrows 'Database error while finding
\* cached user: ...', which no branch of the catch of createPost or likePost
\* matches, so the controller answers 500
GateReadFailed(r) == StorageError([r EXCEPT !.userExists = "error"])

\* a miss answered like any other error: GateFailureAndMissDiffer tells it
\* from the catch of the controller
UserNotFoundAsInternalError(r, status) ==
  InternalError([r EXCEPT !.userExists = "miss"])

\* the service throws 'User not found' and the catch of the controller
\* answers it with status (400 for createPost, 404 for likePost)
UserNotFound(r, status) ==
  Reply([r EXCEPT !.userExists = "miss"], status, "User not found", Undefined)

\* a gate that lets every user through: GateMissRejects tells it from the
\* gate of createPost
GateCreatePostOpen(userExists) == TRUE

\* the gate of createPost: findCachedUserById, then the check of its result
GateCreatePost(userExists) == userExists

CreatePostGate(i, dbOk) ==
  /\ At(i, "createPost.gate")
  /\ LET r == req[i]
         userExists == findCachedUserById(cache, String(r.body.userId))
     IN req' = [req EXCEPT ![i] =
          IF ~dbOk
          THEN GateReadFailed(r)
          ELSE IF ~GateCreatePost(userExists)
          THEN UserNotFound(r, 400)
          ELSE [r EXCEPT !.pc = "createPost.insert", !.userExists = "hit"]]
  /\ UNCHANGED <<cache, posts, likes, postSeq, likeSeq, published,
                 lastHandled, runtime, deletedPosts>>

\* a user_id column that references cached_valid_users: a row of a user the
\* cache no longer holds is refused, and WriteIgnoresTheCache fails
UserReferenceToCache(c, userId) == userId \in c

\* posts.user_id and likes.user_id reference no table, and the insert runs
\* in no transaction with the lookup of the gate: the row is accepted
\* whatever cached_valid_users holds when it is written
UserReference(c, userId) == TRUE

\* ids counted from the rows of the table, as the in-memory repository does:
\* the id of a deleted post comes back, and DeletedPostStaysDeleted fails
NextPostIdByCount(seq, ps) == Cardinality(ps) + 1

\* the post_id the insert gives the new row
NextPostId(seq, ps) == seq + 1

\* PostRepository.createPost: parseInt of the userId, then PostModel.create
CreatePostInsert(i, dbOk) ==
  /\ At(i, "createPost.insert")
  /\ LET r == req[i]
         numericUserId == parseInt10(String(r.body.userId))
         row == [postId |-> NextPostId(postSeq, posts), userId |-> numericUserId.n,
                 title |-> r.body.title.v, content |-> r.body.content.v]
     IN IF isNaN(numericUserId)
        THEN /\ req' = [req EXCEPT ![i] = InternalError(r)]
             /\ UNCHANGED <<posts, postSeq>>
        ELSE IF ~dbOk
        THEN /\ req' = [req EXCEPT ![i] = StorageError(r)]
             /\ UNCHANGED <<posts, postSeq>>
        ELSE IF ~UserReference(cache, String(r.body.userId))
        THEN /\ req' = [req EXCEPT ![i] = InternalError(r)]
             /\ UNCHANGED <<posts, postSeq>>
        ELSE /\ postSeq < MaxPosts
             /\ posts' = posts \cup {row}
             /\ postSeq' = postSeq + 1
             /\ req' = [req EXCEPT ![i] =
                  [r EXCEPT !.pc = "createPost.publish",
                            !.created = toPost(row, 0, FALSE),
                            !.stale = String(r.body.userId) \notin cache]]
  /\ UNCHANGED <<cache, likes, likeSeq, published, lastHandled, runtime,
                 deletedPosts>>

\* a sendPostEvent without its catch: a failed send reaches the catch of the
\* controller, and PublishFailureKeepsThePost tells it from the real one
AfterSendPostEventRethrown(r, kafkaOk) ==
  IF kafkaOk THEN Reply([r EXCEPT !.sent = TRUE], 201, "", r.created)
  ELSE InternalError(r)

\* the request after sendPostEvent has returned: the catch of sendPostEvent
\* swallows a failed connect or send, createPost returns the created post
\* and the controller answers 201 with it
AfterSendPostEvent(r, kafkaOk) ==
  Reply([r EXCEPT !.sent = kafkaOk], 201, "", r.created)

\* an event that names no post: PublishedAfterInsert tells it from the
\* payload of createPost
PostCreatedWithoutPost(createdPost) ==
  [eventType |-> "PostCreated", post |-> Undefined]

\* eventPayload: { ...createdPost, eventType: 'PostCreated', eventTimestamp }
PostCreatedEvent(createdPost) ==
  [eventType |-> "PostCreated", post |-> createdPost]

\* sendPostEvent (failures are caught and logged), then the 201 response
CreatePostPublish(i, kafkaOk) ==
  /\ At(i, "createPost.publish")
  /\ LET r == req[i]
     IN /\ published' = IF kafkaOk
                        THEN Append(published, PostCreatedEvent(r.created))
                        ELSE published
        /\ req' = [req EXCEPT ![i] = AfterSendPostEvent(r, kafkaOk)]
  /\ UNCHANGED <<cache, posts, likes, postSeq, likeSeq, lastHandled, runtime,
                 deletedPosts>>

(* ------------------------------------------------------------------ *)
(* GET /posts/:postId                                                   *)
(* ------------------------------------------------------------------ *)
\* PostService.findPostById(postId, correlationId): the service has no
\* parameter for the viewer, so the authUserId the controller passes as third
\* argument is dropped and the repository reads without a requestingUserId
ServiceFindPostById(ps, ls, postId, authUserId) ==
  findPostById(ps, ls, postId, Undefined)

\* PostController.getPostById: one read
GetPostById(i, dbOk) ==
  /\ At(i, "begin") /\ Op(i, "getPostById")
  /\ LET r == req[i]
         post == ServiceFindPostById(posts, likes, r.postId, r.auth)
     IN req' = [req EXCEPT ![i] =
          IF ~dbOk THEN StorageError(r)
          ELSE IF post # Undefined THEN Reply(r, 200, "", post)
          ELSE Reply(r, 404, "Post not found", Undefined)]
  /\ UNCHANGED <<cache, posts, likes, postSeq, likeSeq, published,
                 lastHandled, runtime, deletedPosts>>

(* ------------------------------------------------------------------ *)
(* GET /posts/:postId/likes/count                                       *)
(* ------------------------------------------------------------------ *)
\* PostController.getPostLikeCount and PostService.getLikeCount up to the end
\* of the read of the post
GetLikeCountFind(i, dbOk) ==
  /\ At(i, "begin") /\ Op(i, "getLikeCount")
  /\ LET r == req[i]
         post == findPostById(posts, likes, r.postId, Undefined)
         seen == [r EXCEPT !.existing =
                    IF post = Undefined THEN Undefined ELSE Str(post.userId)]
     IN req' = [req EXCEPT ![i] =
          IF ~dbOk THEN StorageError(r)
          ELSE IF post = Undefined THEN Reply(seen, 404, "Post not found", Undefined)
          ELSE [seen EXCEPT !.pc = "getLikeCount.count"]]
  /\ UNCHANGED <<cache, posts, likes, postSeq, likeSeq, published,
                 lastHandled, runtime, deletedPosts>>

\* PostRepository.countLikesForPost, and res.json({ postId, count })
GetLikeCountCount(i, dbOk) ==
  /\ At(i, "getLikeCount.count")
  /\ LET r == req[i]
     IN req' = [req EXCEPT ![i] =
          IF ~dbOk THEN StorageError(r)
          ELSE Reply(r, 200, "",
                     [postId |-> r.postId,
                      count |-> countLikesForPost(likes, r.postId)])]
  /\ UNCHANGED <<cache, posts, likes, postSeq, likeSeq, published,
                 lastHandled, runtime, deletedPosts>>

(* ------------------------------------------------------------------ *)
(* Rows held by the open transactions of the other requests             *)
(* ------------------------------------------------------------------ *)
\* like rows deleted by a transaction that has not ended: a statement of
\* another request that touches one of them waits for the transaction
LockedLikes(i) == UNION { req[j].tx.likes : j \in { k \in Slots : k # i /\ req[k].pc # "idle" } }

\* post ids whose row such a transaction has deleted
LockedPosts(i) ==
  { parseInt10(req[j].postId).n :
      j \in { k \in Slots : k # i /\ req[k].pc # "idle" /\ req[k].tx.post } }

(* ------------------------------------------------------------------ *)
(* PUT /posts/:postId                                                   *)
(* ------------------------------------------------------------------ *)
\* an ownership check nobody passes: ForbiddenAfterOneRead tells it from the
\* one of the service
NobodyIsAuthor(existingPost, requestingAuthUserId) == FALSE

\* an ownership check that also wants a cache row of the requester:
\* UserDeletedChangesOnlyTheCache tells it from the one of the service
IsAuthorAndCached(existingPost, requestingAuthUserId) ==
  /\ existingPost.userId = String(requestingAuthUserId)
  /\ String(requestingAuthUserId) \in cache

\* the ownership check of PostService.updatePost and deletePost
IsAuthor(existingPost, requestingAuthUserId) ==
  existingPost.userId = String(requestingAuthUserId)

\* PostController.updatePost up to the end of the first read: with no field
\* to update the controller answers with the current post; otherwise
\* PostService.updatePost reads the post and checks its author
UpdatePostFind(i, dbOk) ==
  /\ At(i, "begin") /\ Op(i, "updatePost")
  /\ LET r == req[i]
         noFields == r.body.title = Undefined /\ r.body.content = Undefined
         post == findPostById(posts, likes, r.postId, Undefined)
         seen == [r EXCEPT !.existing =
                    IF post = Undefined THEN Undefined ELSE Str(post.userId)]
     IN req' = [req EXCEPT ![i] =
          IF ~Truthy(r.auth) THEN Unauthorized(r)
          ELSE IF ~dbOk THEN StorageError(r)
          ELSE IF noFields
          THEN IF post # Undefined THEN Reply(seen, 200, "", post)
               ELSE Reply(seen, 404, "Post not found", Undefined)
          ELSE IF post = Undefined THEN Reply(seen, 404, "Post not found", Undefined)
          ELSE IF ~IsAuthor(post, r.auth)
          THEN Reply(seen, 403,
                     "Forbidden: You do not have permission to update this post",
                     Undefined)
          ELSE IF isNaN(parseInt10(r.postId)) THEN Reply(seen, 200, "", Undefined)
          ELSE [seen EXCEPT !.pc = "updatePost.update"]]
  /\ UNCHANGED <<cache, posts, likes, postSeq, likeSeq, published,
                 lastHandled, runtime, deletedPosts>>

\* the row after PostModel.update(updateData)
UpdatedRow(row, updateData) ==
  [row EXCEPT !.title = IF updateData.title # Undefined
                        THEN updateData.title.v ELSE @,
              !.content = IF updateData.content # Undefined
                          THEN updateData.content.v ELSE @]

\* PostRepository.updatePost: PostModel.update ... where postId
UpdatePostUpdate(i, dbOk) ==
  /\ At(i, "updatePost.update")
  /\ LET r == req[i]
         n == parseInt10(r.postId).n
         hit == { row \in posts : row.postId = n }
     IN IF ~dbOk
        THEN /\ req' = [req EXCEPT ![i] = StorageError(r)]
             /\ UNCHANGED posts
        ELSE /\ n \notin LockedPosts(i)
             /\ posts' = (posts \ hit) \cup { UpdatedRow(row, r.body) : row \in hit }
             /\ req' = [req EXCEPT ![i] =
                  [r EXCEPT !.pc = "updatePost.refetch",
                            !.affected = Cardinality(hit)]]
  /\ UNCHANGED <<cache, likes, postSeq, likeSeq, published,
                 lastHandled, runtime, deletedPosts>>

\* PostRepository.updatePost: PostModel.findByPk after the update, and the
\* 200 response with whatever it gives
UpdatePostRefetch(i, dbOk) ==
  /\ At(i, "updatePost.refetch")
  /\ LET r == req[i]
         n == parseInt10(r.postId).n
         hit == { row \in posts : row.postId = n }
     IN req' = [req EXCEPT ![i] =
          IF ~dbOk THEN StorageError(r)
          ELSE IF hit # {}
          THEN Reply(r, 200, "", toPost(CHOOSE row \in hit : TRUE, 0, FALSE))
          ELSE Reply(r, 200, "", Undefined)]
  /\ UNCHANGED <<cache, posts, likes, postSeq, likeSeq, published,
                 lastHandled, runtime, deletedPosts>>

(* ------------------------------------------------------------------ *)
(* DELETE /posts/:postId                                                *)
(* ------------------------------------------------------------------ *)
\* PostController.deletePost and PostService.deletePost up to the end of the
\* read of the post
DeletePostFind(i, dbOk) ==
  /\ At(i, "begin") /\ Op(i, "deletePost")
  /\ LET r == req[i]
         post == findPostById(posts, likes, r.postId, Undefined)
         seen == [r EXCEPT !.existing =
                    IF post = Undefined THEN Undefined ELSE Str(post.userId)]
     IN req' = [req EXCEPT ![i] =
          IF ~Truthy(r.auth) THEN Unauthorized(r)
          ELSE IF ~dbOk THEN StorageError(r)
          ELSE IF post = Undefined THEN Reply(seen, 404, "Post not found", Undefined)
          ELSE IF ~IsAuthor(post, r.auth)
          THEN Reply(seen, 403,
                     "Forbidden: You do not have permission to delete this post",
                     Undefined)
          ELSE IF isNaN(parseInt10(r.postId)) THEN Reply(seen, 204, "", Undefined)
          ELSE [seen EXCEPT !.pc = "deletePost.likes"]]
  /\ UNCHANGED <<cache, posts, likes, postSeq, likeSeq, published,
                 lastHandled, runtime, deletedPosts>>

\* rollback of the transaction and the 500 response
Rollback(r) == StorageError(r)

\* PostRepository.deletePost: sequelize.transaction(), then
\* LikeModel.destroy({ where: { postId }, transaction })
DeletePostLikes(i, dbOk) ==
  /\ At(i, "deletePost.likes")
  /\ LET r == req[i]
         n == parseInt10(r.postId).n
         rows == LikesOfPost(likes, n)
     IN IF ~dbOk THEN req' = [req EXCEPT ![i] = Rollback(r)]
        ELSE /\ rows \cap LockedLikes(i) = {}
             /\ req' = [req EXCEPT ![i] =
                  [r EXCEPT !.pc = "deletePost.post",
                            !.tx = [open |-> TRUE, likes |-> rows, post |-> FALSE]]]
  /\ UNCHANGED <<cache, posts, likes, postSeq, likeSeq, published,
                 lastHandled, runtime, deletedPosts>>

\* the like rows the deletion of post n takes with it (ON DELETE CASCADE)
Cascade(ls, n) == LikesOfPost(ls, n)

\* PostRepository.deletePost: PostModel.destroy({ where: { postId }, transaction })
DeletePostPost(i, dbOk) ==
  /\ At(i, "deletePost.post")
  /\ LET r == req[i]
         n == parseInt10(r.postId).n
         hit == { row \in posts : row.postId = n }
         rows == IF hit # {} THEN Cascade(likes, n) ELSE {}
     IN IF ~dbOk THEN req' = [req EXCEPT ![i] = Rollback(r)]
        ELSE /\ n \notin LockedPosts(i)
             /\ (rows \ r.tx.likes) \cap LockedLikes(i) = {}
             /\ req' = [req EXCEPT ![i] =
                  [r EXCEPT !.pc = "deletePost.commit",
                            !.affected = Cardinality(hit),
                            !.tx = [open |-> TRUE, likes |-> r.tx.likes \cup rows,
                                    post |-> hit # {}]]]
  /\ UNCHANGED <<cache, posts, likes, postSeq, likeSeq, published,
                 lastHandled, runtime, deletedPosts>>

\* a commit that drops the deletion of the post and keeps that of its likes:
\* DeleteIsAtomic fails on it
CommitPostsKept(ps, tx, n) == ps

\* the tables after transaction.commit()
CommitLikes(ls, tx) == ls \ tx.likes
CommitPosts(ps, tx, n) == IF tx.post THEN { row \in ps : row.postId # n } ELSE ps

\* PostRepository.deletePost: transaction.commit(), and the 204 response of
\* the controller, which does not look at the result
DeletePostCommit(i, dbOk) ==
  /\ At(i, "deletePost.commit")
  /\ LET r == req[i]
         n == parseInt10(r.postId).n
     IN IF ~dbOk
        THEN /\ req' = [req EXCEPT ![i] = Rollback(r)]
             /\ UNCHANGED <<posts, likes, deletedPosts>>
        ELSE /\ likes' = CommitLikes(likes, r.tx)
             /\ posts' = CommitPosts(posts, r.tx, n)
             /\ deletedPosts' = IF r.tx.post THEN deletedPosts \cup {n}
                                ELSE deletedPosts
             /\ req' = [req EXCEPT ![i] = Reply(r, 204, "", Undefined)]
  /\ UNCHANGED <<cache, postSeq, likeSeq, published, lastHandled, runtime>>

(* ------------------------------------------------------------------ *)
(* POST /posts/:postId/like                                             *)
(* ------------------------------------------------------------------ *)
\* PostController.likePost and PostService.likePost up to the end of the read
\* of the post
LikePostFind(i, dbOk) ==
  /\ At(i, "begin") /\ Op(i, "likePost")
  /\ LET r == req[i]
         post == findPostById(posts, likes, r.postId, Undefined)
         seen == [r EXCEPT !.existing =
                    IF post = Undefined THEN Undefined ELSE Str(post.userId)]
     IN req' = [req EXCEPT ![i] =
          IF ~Truthy(r.auth) THEN Unauthorized(r)
          ELSE IF ~dbOk THEN StorageError(r)
          ELSE IF post = Undefined THEN Reply(seen, 404, "Post not found", Undefined)
          ELSE [seen EXCEPT !.pc = "likePost.gate"]]
  /\ UNCHANGED <<cache, posts, likes, postSeq, likeSeq, published,
                 lastHandled, runtime, deletedPosts>>

\* a gate that lets every user through: LikeGateMissRejects tells it from the
\* gate of likePost
GateLikePostOpen(userExists) == TRUE

\* the gate of likePost: findCachedUserById, then the check of its result
GateLikePost(userExists) == userExists

LikePostGate(i, dbOk) ==
  /\ At(i, "likePost.gate")
  /\ LET r == req[i]
         userExists == findCachedUserById(cache, String(r.auth))
     IN req' = [req EXCEPT ![i] =
          IF ~dbOk
          THEN GateReadFailed(r)
          ELSE IF ~GateLikePost(userExists)
          THEN UserNotFound(r, 404)
          ELSE [r EXCEPT !.pc = "likePost.insert", !.userExists = "hit"]]
  /\ UNCHANGED <<cache, posts, likes, postSeq, likeSeq, published,
                 lastHandled, runtime, deletedPosts>>

\* a likes table without the unique index: OneLikePerPair fails on it
NoUniqueIndex(ls, userId, postId) == {}

\* the unique index on likes (user_id, post_id): rows the new row conflicts with
UniqueConflict(ls, userId, postId) ==
  { l \in ls : l.userId = userId /\ l.postId = postId }

\* a post_id column that references no table: a like of a deleted post is
\* accepted, and LikeReferencesPost fails
NoPostReference(ps, postId) == TRUE

\* likes.post_id references posts: the insert of a like of a post that is not
\* in the table fails
PostReference(ps, postId) == \E p \in ps : p.postId = postId

\* PostRepository.createLike: LikeModel.create.  The insert waits for an open
\* transaction that has deleted a row of the same pair or the post itself; it
\* fails on the unique index and on the foreign key to posts.
LikePostInsert(i, dbOk) ==
  /\ At(i, "likePost.insert")
  /\ LET r == req[i]
         numericUserId == parseInt10(String(r.auth))
         numericPostId == parseInt10(r.postId)
         row == [likeId |-> likeSeq + 1, userId |-> numericUserId.n,
                 postId |-> numericPostId.n]
     IN IF isNaN(numericUserId) \/ isNaN(numericPostId)
        THEN /\ req' = [req EXCEPT ![i] = InternalError(r)]
             /\ UNCHANGED <<likes, likeSeq>>
        ELSE IF ~dbOk
        THEN /\ req' = [req EXCEPT ![i] = StorageError(r)]
             /\ UNCHANGED <<likes, likeSeq>>
        ELSE IF ~UserReference(cache, String(r.auth))
        THEN /\ req' = [req EXCEPT ![i] = InternalError(r)]
             /\ UNCHANGED <<likes, likeSeq>>
        ELSE /\ numericPostId.n \notin LockedPosts(i)
             /\ UniqueConflict(LockedLikes(i), row.userId, row.postId) = {}
             /\ IF UniqueConflict(likes, row.userId, row.postId) # {}
                THEN /\ req' = [req EXCEPT ![i] =
                          [r EXCEPT !.pc = "likePost.dup1",
                                    !.conflict = toLike(CHOOSE l \in UniqueConflict(
                                                   likes, row.userId, row.postId) : TRUE)]]
                     /\ UNCHANGED <<likes, likeSeq>>
                ELSE IF ~PostReference(posts, row.postId)
                THEN /\ req' = [req EXCEPT ![i] = InternalError(r)]
                     /\ UNCHANGED <<likes, likeSeq>>
                ELSE /\ likeSeq < MaxLikes
                     /\ likes' = likes \cup {row}
                     /\ likeSeq' = likeSeq + 1
                     /\ req' = [req EXCEPT ![i] =
                          Reply([r EXCEPT !.created = toLike(row),
                                          !.stale = String(r.auth) \notin cache],
                                201, "", toLike(row))]
  /\ UNCHANGED <<cache, posts, postSeq, published, lastHandled, runtime,
                 deletedPosts>>

\* PostRepository.createLike, catch of UniqueConstraintError: the existing like
\* is read and returned, or 'Like already exists' is thrown
LikePostDuplicate(i, dbOk) ==
  /\ At(i, "likePost.dup1")
  /\ LET r == req[i]
         existingLike == findLikeByUserAndPost(likes, String(r.auth), r.postId)
     IN req' = [req EXCEPT ![i] =
          IF ~dbOk THEN StorageError(r)
          ELSE IF existingLike # Undefined THEN Reply(r, 201, "", existingLike)
          ELSE [r EXCEPT !.pc = "likePost.dup2"]]
  /\ UNCHANGED <<cache, posts, likes, postSeq, likeSeq, published,
                 lastHandled, runtime, deletedPosts>>

\* PostService.likePost, catch of 'Like already exists': the existing like is
\* read once more, and 'Failed to process like action' is thrown without it
LikePostAlreadyLiked(i, dbOk) ==
  /\ At(i, "likePost.dup2")
  /\ LET r == req[i]
         existingLike == findLikeByUserAndPost(likes, String(r.auth), r.postId)
     IN req' = [req EXCEPT ![i] =
          IF ~dbOk THEN StorageError(r)
          ELSE IF existingLike # Undefined THEN Reply(r, 201, "", existingLike)
          ELSE InternalError(r)]
  /\ UNCHANGED <<cache, posts, likes, postSeq, likeSeq, published,
                 lastHandled, runtime, deletedPosts>>

(* ------------------------------------------------------------------ *)
(* DELETE /posts/:postId/like                                           *)
(* ------------------------------------------------------------------ *)
\* PostController.unlikePost and PostService.unlikePost up to the end of the
\* read of the post
\* an unlike behind the gate of likePost: UnlikeIgnoresTheCache tells it from
\* the one of the service
GateUnlikePostClosed(c, userId) == userId \in c

\* PostService.unlikePost looks for no cache row ('No need to check
\* cachedUser for unliking'): every user passes
GateUnlikePost(c, userId) == TRUE

UnlikePostFind(i, dbOk) ==
  /\ At(i, "begin") /\ Op(i, "unlikePost")
  /\ LET r == req[i]
         post == findPostById(posts, likes, r.postId, Undefined)
         seen == [r EXCEPT !.existing =
                    IF post = Undefined THEN Undefined ELSE Str(post.userId)]
     IN req' = [req EXCEPT ![i] =
          IF ~Truthy(r.auth) THEN Unauthorized(r)
          ELSE IF ~dbOk THEN StorageError(r)
          ELSE IF post = Undefined THEN Reply(seen, 404, "Post not found", Undefined)
          ELSE IF ~GateUnlikePost(cache, String(r.auth))
          THEN UserNotFound(seen, 404)
          ELSE [seen EXCEPT !.pc = "unlikePost.delete"]]
  /\ UNCHANGED <<cache, posts, likes, postSeq, likeSeq, published,
                 lastHandled, runtime, deletedPosts>>

\* the rows LikeModel.destroy({ where: { userId, postId } }) removes
DestroyedLikes(ls, userId, postId) ==
  { l \in ls : l.userId = userId /\ l.postId = postId }

\* PostRepository.deleteLike, and the 204 response whatever it returns
UnlikePostDelete(i, dbOk) ==
  /\ At(i, "unlikePost.delete")
  /\ LET r == req[i]
         numericUserId == parseInt10(String(r.auth))
         numericPostId == parseInt10(r.postId)
         rows == DestroyedLikes(likes, numericUserId.n, numericPostId.n)
     IN IF isNaN(numericUserId) \/ isNaN(numericPostId)
        THEN /\ req' = [req EXCEPT ![i] = Reply(r, 204, "", Undefined)]
             /\ UNCHANGED likes
        ELSE IF ~dbOk
        THEN /\ req' = [req EXCEPT ![i] = StorageError(r)]
             /\ UNCHANGED likes
        ELSE /\ rows \cap LockedLikes(i) = {}
             /\ likes' = likes \ rows
             /\ req' = [req EXCEPT ![i] =
                  Reply([r EXCEPT !.affected = Cardinality(rows)], 204, "",
                        Undefined)]
  /\ UNCHANGED <<cache, posts, postSeq, likeSeq, published,
                 lastHandled, runtime, deletedPosts>>

(* ------------------------------------------------------------------ *)
(* The user service, its topic and the delivery of its events           *)
(* ------------------------------------------------------------------ *)
\* the most events that wait in the topic
MaxTopic == 2

\* the user service registers, changes or removes user u and publishes the
\* event to user_lifecycle_events
Produce(type, u) ==
  /\ Len(topic) < MaxTopic
  /\ CASE type = UserCreated -> u \notin upstream /\ upstream' = upstream \cup {u}
       [] type = UserDeleted -> u \in upstream /\ upstream' = upstream \ {u}
       [] OTHER -> u \in upstream /\ upstream' = upstream
  /\ topic' = Append(topic, Event(Str(type), Str(u), 1))
  /\ UNCHANGED <<cache, posts, likes, postSeq, likeSeq, published, req,
                 lastHandled, deletedPosts, process, dropped, ingestor>>

\* a consumer whose handler lets the failure of a write through: the
\* runtime delivers the event again, and FailedWriteIsSkipped fails
RedeliveredOnFailure(t, written) == IF written THEN Tail(t) ELSE t

\* the topic after eachMessage has returned: the handler catches every
\* error, so the offset moves past the event whatever became of it
TopicAfter(t, written) == Tail(t)

\* eachMessage on the next event of the topic: handleUserLifecycleEvent
\* returns whether its statement succeeded or not, so the offset moves on and
\* the event is not delivered again
Deliver(dbOk) ==
  /\ consumer = "Running"
  /\ topic # <<>>
  /\ HandleCache(Head(topic), dbOk)
  /\ topic' = TopicAfter(topic, Written(cache, Head(topic), dbOk))
  /\ UNCHANGED <<posts, likes, postSeq, likeSeq, published, req, lastHandled,
                 deletedPosts, upstream, process, dropped, ingestor>>

\* any record arrives in the topic, a malformed one included
Publish(m) ==
  /\ Len(topic) < MaxTopic
  /\ topic' = Append(topic, m)
  /\ UNCHANGED <<cache, posts, likes, postSeq, likeSeq, published, req,
                 lastHandled, deletedPosts, upstream, process, dropped,
                 ingestor>>

\* eachMessage on the next record of the topic, with the handled event
\* recorded per user
DeliverRecorded(dbOk) ==
  /\ consumer = "Running"
  /\ topic # <<>>
  /\ HandleCache(Head(topic), dbOk)
  /\ Recorded(Head(topic), dbOk)
  /\ topic' = TopicAfter(topic, Written(cache, Head(topic), dbOk))
  /\ dropped' = IF Dispatched(Head(topic)) THEN dropped ELSE Head(topic)
  /\ UNCHANGED <<posts, likes, postSeq, likeSeq, published, req, deletedPosts,
                 upstream, process, ingestor>>

(* ------------------------------------------------------------------ *)
(* Post creation behind the gate, with the consumer running             *)
(* ------------------------------------------------------------------ *)
Auths == { Str(u) : u \in UserIds }
CreateBodies ==
  [userId : { Str(u) : u \in UserIds }, title : {Undefined, Str(<<"T">>)},
   content : {Str(<<"C">>)}]

\* UserCreated and UserDeleted events of the users of set U
Lifecycle(U) ==
  { Event(Str(ty), Str(u), 1) : ty \in {UserCreated, UserDeleted}, u \in U }

ReceiveCreatePost(i) ==
  \E auth \in Auths, body \in CreateBodies :
    Receive(i, "createPost", auth, <<>>, body)

Consume ==
  \E m \in Lifecycle(UserIds), dbOk \in BOOLEAN : handleUserLifecycleEvent(m, dbOk)

CreatePost(i) ==
  \/ CreatePostBegin(i)
  \/ \E dbOk \in BOOLEAN : CreatePostGate(i, dbOk)
  \/ \E dbOk \in BOOLEAN : CreatePostInsert(i, dbOk)
  \/ \E kafkaOk \in BOOLEAN : CreatePostPublish(i, kafkaOk)

Next ==
  \/ Consume
  \/ ReceiveCreatePost(1)
  \/ CreatePost(1)

Spec == Init /\ [][Next]_vars

\* C2: when the lookup of the gate of createPost finds no row for the userId
\* of the body, the request ends there with 400 'User not found': the step
\* inserts no post and publishes no event, and the request holds no post.
GateMissRejects ==
  [][\A i \in Slots :
       (/\ req[i].pc = "createPost.gate"
        /\ req'[i] # req[i]
        /\ ~req'[i].fault
        /\ String(req[i].body.userId) \notin cache)
       => (/\ req'[i].pc = "done"
           /\ req'[i].res = [status |-> 400, message |-> "User not found",
                             body |-> Undefined]
           /\ req'[i].created = Undefined
           /\ ~req'[i].sent
           /\ posts' = posts
           /\ postSeq' = postSeq
           /\ published' = published)]_vars

\* a request turned away by the gate after another one has created a post
GateMissRejectsWitness ==
  /\ req[1].pc = "done" /\ req[1].op = "createPost"
  /\ req[1].userExists = "miss"
  /\ req[1].res.status = 400
  /\ Cardinality(posts) = 1 /\ Len(published) = 1

\* C3: a createPost request whose userId has a cache row at the lookup of the
\* gate, with no storage failure, is answered 201 with a post that has a
\* postId and belongs to that userId, and that post is in the table.
CachedUserCreatesPost ==
  \A i \in Slots :
    (/\ req[i].pc = "done" /\ req[i].op = "createPost"
     /\ req[i].userExists = "hit" /\ ~req[i].fault)
    => (/\ req[i].res.status = 201
        /\ req[i].res.body # Undefined
        /\ req[i].res.body.postId # <<>>
        /\ req[i].res.body.userId = String(req[i].auth)
        /\ \E row \in posts :
             /\ toString(row.postId) = req[i].res.body.postId
             /\ toString(row.userId) = String(req[i].auth))

\* a cached user whose id has no digit is answered 500, and no post is there
CachedUserWithoutPost ==
  /\ req[1].pc = "done" /\ req[1].op = "createPost"
  /\ req[1].userExists = "hit" /\ ~req[1].fault
  /\ req[1].auth = Str(<<"b">>)
  /\ req[1].res.status = 500
  /\ posts = {}

\* C11: when the PostCreated event cannot be published (the producer does
\* not connect, or the send rejects), the step after the insert still
\* answers 201 with the inserted post, and the row of that post stays in the
\* table: the step changes neither posts nor the sequence.
PublishFailureKeepsThePost ==
  [][\A i \in Slots :
       (/\ req[i].pc = "createPost.publish"
        /\ req'[i] # req[i]
        /\ published' = published)
       => (/\ req'[i].pc = "done"
           /\ req'[i].res.status = 201
           /\ req'[i].res.body = req[i].created
           /\ posts' = posts
           /\ postSeq' = postSeq
           /\ \E row \in posts' :
                toString(row.postId) = req'[i].res.body.postId)]_vars

\* a createPost answered 201 although its event was not published
PublishFailureKeepsThePostWitness ==
  /\ req[1].pc = "done" /\ req[1].op = "createPost"
  /\ req[1].res.status = 201 /\ ~req[1].sent
  /\ published = <<>>
  /\ \E row \in posts : toString(row.postId) = req[1].res.body.postId

\* C13 as stated: a createPost whose gate lookup failed is answered like one
\* whose lookup found no row, with 400 'User not found'.
GateFailureAnsweredAsMiss ==
  \A i \in Slots :
    (/\ req[i].pc = "done" /\ req[i].op = "createPost"
     /\ req[i].userExists = "error")
    => req[i].res = [status |-> 400, message |-> "User not found",
                     body |-> Undefined]

\* C13, amended: a createPost whose gate lookup failed is answered 500
\* 'Internal server error', and one whose lookup found no row is answered 400
\* 'User not found': the client sees two different outcomes.
GateFailureAndMissDiffer ==
  \A i \in Slots :
    (req[i].pc = "done" /\ req[i].op = "createPost")
    => /\ req[i].userExists = "error"
          => req[i].res = [status |-> 500, message |-> "Internal server error",
                           body |-> Undefined]
       /\ req[i].userExists = "miss"
          => req[i].res = [status |-> 400, message |-> "User not found",
                           body |-> Undefined]

\* a createPost of a cached user whose gate lookup failed, answered 500
GateFailureAndMissDifferWitness ==
  /\ req[1].pc = "done" /\ req[1].op = "createPost"
  /\ req[1].userExists = "error"
  /\ String(req[1].auth) \in cache
  /\ req[1].res.status = 500

\* C29: an event is published only by a createPost that has inserted its
\* post and has not published yet: the step appends one PostCreated event
\* with the postId, userId, title and content of a row that is in the table
\* before the step, inserts nothing, and ends the request.
PublishedAfterInsert ==
  [][published' # published
     => \E i \in Slots :
          /\ req[i].pc = "createPost.publish" /\ req'[i].pc = "done"
          /\ ~req[i].sent /\ req'[i].sent
          /\ posts' = posts
          /\ published' = Append(published,
                                 [eventType |-> "PostCreated",
                                  post |-> req[i].created])
          /\ \E row \in posts :
               /\ toString(row.postId) = req[i].created.postId
               /\ toString(row.userId) = req[i].created.userId
               /\ row.title = req[i].created.title
               /\ row.content = req[i].created.content]_vars

\* two posts were inserted and the event of each was published, in that order
PublishedAfterInsertWitness ==
  /\ Len(published) = 2
  /\ published[1].post.postId = toString(1)
  /\ published[2].post.postId = toString(2)
  /\ Cardinality(posts) = 2
  /\ req[1].pc = "done" /\ req[1].sent

\* C26: the response of createPost does not wait for the publication of
\* PostCreated: at the step at which the producer has connected and sent (or
\* has failed), the request that issued the publication was answered already.
ResponseDoesNotWaitForPublish ==
  [][\A i \in Slots :
       (req[i].pc = "createPost.publish" /\ req'[i] # req[i])
       => (/\ req[i].res.status = 201
           /\ req'[i].res = req[i].res)]_vars

(* ------------------------------------------------------------------ *)
(* Likes and unlikes of one post by concurrent requests; the post is    *)
(* created by a request of the first slot                               *)
(* ------------------------------------------------------------------ *)
LikeUsers == { <<"1">>, <<"2">>, <<"1", "a">> }
PostOfOne ==
  [userId |-> Str(<<"1">>), title |-> Str(<<"T">>), content |-> Str(<<"C">>)]

\* user 1 posts, while there is no post
ReceiveCreatePostOfOne(i) ==
  /\ posts = {}
  /\ Receive(i, "createPost", Str(<<"1">>), <<>>, PostOfOne)

\* a user likes or unlikes post 1
ReceiveLike(i) ==
  \E u \in LikeUsers : Receive(i, "likePost", Str(u), toString(1), NoBody)
ReceiveUnlike(i) ==
  \E u \in LikeUsers : Receive(i, "unlikePost", Str(u), toString(1), NoBody)

ConsumeLikeUsers ==
  \E m \in Lifecycle({<<"1">>, <<"2">>}), dbOk \in BOOLEAN :
    handleUserLifecycleEvent(m, dbOk)

LikePost(i) ==
  \/ \E dbOk \in BOOLEAN : LikePostFind(i, dbOk)
  \/ \E dbOk \in BOOLEAN : LikePostGate(i, dbOk)
  \/ \E dbOk \in BOOLEAN : LikePostInsert(i, dbOk)
  \/ \E dbOk \in BOOLEAN : LikePostDuplicate(i, dbOk)
  \/ \E dbOk \in BOOLEAN : LikePostAlreadyLiked(i, dbOk)

UnlikePost(i) ==
  \/ \E dbOk \in BOOLEAN : UnlikePostFind(i, dbOk)
  \/ \E dbOk \in BOOLEAN : UnlikePostDelete(i, dbOk)

NextLike ==
  \/ ConsumeLikeUsers
  \/ ReceiveCreatePostOfOne(1)
  \/ CreatePost(1)
  \/ \E i \in Slots :
       \/ ReceiveLike(i)
       \/ ReceiveUnlike(i)
       \/ LikePost(i)
       \/ UnlikePost(i)

SpecLike == Init /\ [][NextLike]_vars

\* C4: when the lookup of the gate of likePost finds no row for the caller,
\* the request ends there with 'User not found' and the step inserts no like.
LikeGateMissRejects ==
  [][\A i \in Slots :
       (/\ req[i].pc = "likePost.gate"
        /\ req'[i] # req[i]
        /\ ~req'[i].fault
        /\ String(req[i].auth) \notin cache)
       => (/\ req'[i].pc = "done"
           /\ req'[i].res = [status |-> 404, message |-> "User not found",
                             body |-> Undefined]
           /\ req'[i].created = Undefined
           /\ likes' = likes
           /\ likeSeq' = likeSeq)]_vars

\* a like turned away by the gate on a post that another user has liked
LikeGateMissRejectsWitness ==
  \E i \in Slots :
    /\ req[i].pc = "done" /\ req[i].op = "likePost"
    /\ req[i].existing # Undefined
    /\ req[i].userExists = "miss"
    /\ req[i].res.message = "User not found"
    /\ likes # {}

\* C5: no two rows of likes have the same userId and postId.
OneLikePerPair ==
  \A l1 \in likes, l2 \in likes :
    (l1.userId = l2.userId /\ l1.postId = l2.postId) => l1 = l2

\* two likes of the same pair in flight at once: one has inserted the row
\* while the other was past the gate, and the other has met the unique index
OneLikePerPairWitness ==
  /\ req[1].pc = "done" /\ req[1].op = "likePost" /\ req[1].res.status = 201
  /\ req[1].created # Undefined
  /\ req[2].pc = "likePost.dup1"
  /\ req[2].auth = req[1].auth
  /\ req[2].conflict = req[1].created
  /\ Cardinality(likes) = 2

\* C6: a like request whose insert met the row of an already liked pair, with
\* no storage failure, is answered 201 with that row.
LikeOfLikedPairReturnsIt ==
  \A i \in Slots :
    (/\ req[i].pc = "done" /\ req[i].op = "likePost"
     /\ req[i].conflict # Undefined /\ ~req[i].fault)
    => (req[i].res.status = 201 /\ req[i].res.body = req[i].conflict)

\* the pair was unliked between the unique violation and the two reads of the
\* existing like: the like request is answered 500 and the pair is not liked
LikeOfLikedPairFails ==
  \E i \in Slots :
    /\ req[i].pc = "done" /\ req[i].op = "likePost"
    /\ req[i].conflict # Undefined /\ ~req[i].fault
    /\ req[i].res.status = 500
    /\ findLikeByUserAndPost(likes, String(req[i].auth), req[i].postId) = Undefined

\* C7: an unlike removes no row but the caller's own like of that post, and
\* when the caller has none it changes nothing and is answered 204.
UnlikeRemovesOwnLikeOnly ==
  [][\A i \in Slots :
       (req[i].pc = "unlikePost.delete" /\ req'[i] # req[i])
       => (/\ \A l \in likes \ likes' :
                /\ toString(l.userId) = String(req[i].auth)
                /\ toString(l.postId) = req[i].postId
           /\ (~\E l \in likes : /\ toString(l.userId) = String(req[i].auth)
                                  /\ toString(l.postId) = req[i].postId)
              => (likes' = likes /\ (~req'[i].fault => req'[i].res.status = 204)))]_vars

\* user "1a" has unliked post 1 and a row went away, the like of user 1
UnlikeRemovedAnotherUsersLike ==
  \E i \in Slots :
    /\ req[i].pc = "done" /\ req[i].op = "unlikePost"
    /\ req[i].auth = Str(<<"1", "a">>)
    /\ req[i].res.status = 204
    /\ req[i].affected = 1

\* C12: when the lookup of the gate fails, createPost and likePost end there:
\* the step inserts no post and no like and publishes no event, and the
\* response is not the one of a miss ('User not found' with 400 or 404) but
\* 500 'Internal server error'.
GateReadFailureFailsClosed ==
  [][\A i \in Slots :
       (/\ req[i].pc \in {"createPost.gate", "likePost.gate"}
        /\ req'[i].userExists = "error")
       => (/\ req'[i].pc = "done"
           /\ req'[i].res.status = 500
           /\ req'[i].res.status \notin {400, 404}
           /\ req'[i].res.message # "User not found"
           /\ req'[i].created = Undefined
           /\ ~req'[i].sent
           /\ posts' = posts /\ likes' = likes
           /\ postSeq' = postSeq /\ likeSeq' = likeSeq
           /\ published' = published)]_vars

\* a likePost of a cached user on an existing post, refused because the
\* lookup of the gate failed: no like is there
GateReadFailureFailsClosedWitness ==
  \E i \in Slots :
    /\ req[i].pc = "done" /\ req[i].op = "likePost"
    /\ req[i].userExists = "error"
    /\ String(req[i].auth) \in cache
    /\ posts # {} /\ likes = {}
    /\ req[i].res.status = 500

(* ------------------------------------------------------------------ *)
(* Deletion of one post while it is liked and read                      *)
(* ------------------------------------------------------------------ *)
Owners == { <<"1">>, <<"2">> }

\* user 1 or 2 likes post 1
ReceiveLikeOfOwners(i) ==
  \E u \in Owners : Receive(i, "likePost", Str(u), toString(1), NoBody)

\* user 1 or 2 asks for the deletion of post 1
ReceiveDelete(i) ==
  \E u \in Owners : Receive(i, "deletePost", Str(u), toString(1), NoBody)

\* anybody reads post 1
ReceiveGet(i) == Receive(i, "getPostById", Undefined, toString(1), NoBody)

ConsumeOwners ==
  \E m \in Lifecycle(Owners), dbOk \in BOOLEAN : handleUserLifecycleEvent(m, dbOk)

DeletePost(i) ==
  \/ \E dbOk \in BOOLEAN : DeletePostFind(i, dbOk)
  \/ \E dbOk \in BOOLEAN : DeletePostLikes(i, dbOk)
  \/ \E dbOk \in BOOLEAN : DeletePostPost(i, dbOk)
  \/ \E dbOk \in BOOLEAN : DeletePostCommit(i, dbOk)

NextDelete ==
  \/ ConsumeOwners
  \/ ReceiveCreatePostOfOne(1)
  \/ CreatePost(1)
  \/ \E i \in Slots :
       \/ ReceiveLikeOfOwners(i)
       \/ ReceiveDelete(i)
       \/ ReceiveGet(i)
       \/ LikePost(i)
       \/ DeletePost(i)
       \/ \E dbOk \in BOOLEAN : GetPostById(i, dbOk)

SpecDelete == Init /\ [][NextDelete]_vars

\* C8: every like belongs to a post of the table, whatever the step; and a
\* step of a deletePost request either leaves posts and likes as they are or
\* removes the post together with all of its likes and nothing else.  A
\* deletePost request that is not answered 204 has changed nothing.
DeleteIsAtomic ==
  [][/\ \A l \in likes' : \E p \in posts' : p.postId = l.postId
     /\ \A i \in Slots :
          (/\ req[i].pc \notin {"idle", "done"}
           /\ req[i].op = "deletePost"
           /\ req'[i] # req[i])
          => LET n == parseInt10(req[i].postId).n
             IN \/ posts' = posts /\ likes' = likes
                \/ /\ posts' = { p \in posts : p.postId # n }
                   /\ likes' = likes \ LikesOfPost(likes, n)
                   /\ posts' # posts
                   /\ req'[i].pc = "done"
                   /\ req'[i].res.status = 204]_vars

\* a deletion has committed and taken a like with it, while the other request
\* was a like of the same post that had passed its read of the post
DeleteIsAtomicWitness ==
  \E i \in Slots, j \in Slots :
    /\ req[i].pc = "done" /\ req[i].op = "deletePost"
    /\ req[i].res.status = 204 /\ req[i].affected = 1
    /\ req[j].pc \in {"likePost.gate", "likePost.insert", "likePost.dup1"}
    /\ posts = {} /\ likes = {} /\ likeSeq > 0

\* C32: in every state each like row belongs to a post that is in the table
\* and has not been deleted, whatever the interleaving of the steps of
\* likePost and deletePost.
LikeReferencesPost ==
  \A l \in likes :
    /\ l.postId \notin deletedPosts
    /\ \E p \in posts : p.postId = l.postId

\* a like had read the post before its deletion committed, and its insert
\* was refused afterwards: the request is answered 500 and no like is left
LikeReferencesPostWitness ==
  \E i \in Slots, j \in Slots :
    /\ req[i].pc = "done" /\ req[i].op = "deletePost"
    /\ req[i].res.status = 204 /\ req[i].affected = 1
    /\ req[j].pc = "done" /\ req[j].op = "likePost"
    /\ req[j].existing # Undefined /\ req[j].userExists = "hit"
    /\ ~req[j].fault /\ req[j].res.status = 500
    /\ posts = {} /\ likes = {} /\ deletedPosts = {1}

(* ------------------------------------------------------------------ *)
(* Posts and likes of two users, one request at a time                  *)
(* ------------------------------------------------------------------ *)
PostIds == { toString(n) : n \in 1..MaxPosts }
UpdateBodies ==
  [userId : {Undefined}, title : {Undefined, Str(<<"U">>)}, content : {Undefined}]

ReceiveCreatePostOfOwner(i) ==
  \E u \in Owners :
    Receive(i, "createPost", Str(u), <<>>, [PostOfOne EXCEPT !.userId = Str(u)])

\* the author or the other user updates post 1, with or without a field
ReceiveUpdate(i) ==
  \E u \in Owners, body \in UpdateBodies :
    Receive(i, "updatePost", Str(u), toString(1), body)

\* a user reads a post or asks for its deletion
ReceiveOnPost(i) ==
  \E u \in Owners, postId \in PostIds, op \in {"getPostById", "deletePost"} :
    Receive(i, op, Str(u), postId, NoBody)

UpdatePost(i) ==
  \/ \E dbOk \in BOOLEAN : UpdatePostFind(i, dbOk)
  \/ \E dbOk \in BOOLEAN : UpdatePostUpdate(i, dbOk)
  \/ \E dbOk \in BOOLEAN : UpdatePostRefetch(i, dbOk)

\* the handlers that one request at a time can reach
NextPosts ==
  \/ ConsumeOwners
  \/ ReceiveCreatePostOfOwner(1)
  \/ ReceiveUpdate(1)
  \/ ReceiveOnPost(1)
  \/ ReceiveLikeOfOwners(1)
  \/ CreatePost(1)
  \/ \E dbOk \in BOOLEAN : GetPostById(1, dbOk)
  \/ UpdatePost(1)
  \/ DeletePost(1)
  \/ \E dbOk \in BOOLEAN : LikePostFind(1, dbOk)
  \/ \E dbOk \in BOOLEAN : LikePostGate(1, dbOk)
  \/ \E dbOk \in BOOLEAN : LikePostInsert(1, dbOk)
  \/ \E dbOk \in BOOLEAN : LikePostDuplicate(1, dbOk)

SpecPosts == Init /\ [][NextPosts]_vars

\* C9: once a deletePost has committed the deletion of a post, no like of
\* that postId and no post with that postId is in the tables, and a read of
\* it is answered 404; a post that is inserted has a postId above every one
\* handed out before, which is none of the deleted ones, and no like yet.
DeletedPostStaysDeleted ==
  [][/\ \A n \in deletedPosts' :
          /\ LikesOfPost(likes', n) = {}
          /\ \A p \in posts' : p.postId # n
     /\ \A i \in Slots :
          (/\ req[i].pc = "begin" /\ req[i].op = "getPostById"
           /\ req'[i] # req[i] /\ ~req'[i].fault
           /\ ~isNaN(parseInt10(req[i].postId))
           /\ parseInt10(req[i].postId).n \in deletedPosts)
          => req'[i].res.status = 404
     /\ \A row \in posts' \ posts :
          (\A p \in posts : p.postId # row.postId)
          => (/\ row.postId \notin deletedPosts
              /\ row.postId > postSeq
              /\ LikesOfPost(likes', row.postId) = {}
              /\ \E i \in Slots : /\ req'[i].created # Undefined
                                   /\ req'[i].created.postId = toString(row.postId)
                                   /\ req'[i].created.likeCount = 0)]_vars

\* post 1 was liked and then deleted, and the post created next is post 2
DeletedPostStaysDeletedWitness ==
  /\ deletedPosts = {1}
  /\ likeSeq > 0 /\ likes = {}
  /\ req[1].pc = "done" /\ req[1].op = "createPost"
  /\ req[1].res.status = 201
  /\ req[1].res.body.postId = toString(2)
  /\ req[1].res.body.likeCount = 0
  /\ \E p \in posts : p.postId = 2

\* C10: a PUT or DELETE on an existing post by an authenticated user who is
\* not its stored author ends at its first step with 403, whatever the
\* body, and the step leaves posts and likes as they are.
NonOwnerIsForbidden ==
  [][\A i \in Slots :
       (/\ req[i].pc = "begin" /\ req[i].op \in {"updatePost", "deletePost"}
        /\ req'[i] # req[i] /\ ~req'[i].fault
        /\ Truthy(req[i].auth)
        /\ \E p \in posts : /\ toString(p.postId) = req[i].postId
                             /\ toString(p.userId) # String(req[i].auth))
       => (/\ req'[i].pc = "done"
           /\ req'[i].res.status = 403
           /\ posts' = posts
           /\ likes' = likes)]_vars

\* a PUT without title and content by a user who is not the author of the
\* post has been answered 200 with the post
NonOwnerPutAnswered200 ==
  /\ req[1].pc = "done" /\ req[1].op = "updatePost"
  /\ req[1].existing # Undefined
  /\ req[1].existing # req[1].auth
  /\ req[1].res.status = 200
  /\ req[1].res.body # Undefined
  /\ likes # {}

(* ------------------------------------------------------------------ *)
(* Posts and likes of users 1 and 2 while the user service registers    *)
(* and removes them and the consumer follows                            *)
(* ------------------------------------------------------------------ *)
ProduceOwners ==
  \E type \in EventTypes, u \in Owners : Produce(type, u)

NextUpstream ==
  \/ ProduceOwners
  \/ \E dbOk \in BOOLEAN : Deliver(dbOk)
  \/ ReceiveCreatePostOfOwner(1)
  \/ ReceiveLikeOfOwners(1)
  \/ CreatePost(1)
  \/ \E dbOk \in BOOLEAN : LikePostFind(1, dbOk)
  \/ \E dbOk \in BOOLEAN : LikePostGate(1, dbOk)
  \/ \E dbOk \in BOOLEAN : LikePostInsert(1, dbOk)
  \/ \E dbOk \in BOOLEAN : LikePostDuplicate(1, dbOk)

SpecUpstream == Init /\ [][NextUpstream]_vars

\* C14 as stated: once every event the user service has produced is
\* delivered and handled (the topic is empty), the cached userIds are the
\* users that exist upstream.
CacheMatchesUpstreamOnceDrained ==
  topic = <<>> => cache = upstream

\* user 1 exists upstream, every event has been handled, and the cache does
\* not hold user 1
UpstreamUserMissingFromCache ==
  /\ topic = <<>>
  /\ <<"1">> \in upstream
  /\ <<"1">> \notin cache

\* C15: nothing couples the lookup of the gate to the write. A request that
\* passed the gate writes its post or like although the row of its user has
\* been removed from the cache in between; and a request of a user that
\* exists upstream, whose UserCreated event waits in the topic, is answered
\* 'User not found' when the cache has no row yet.
WriteIgnoresTheCache ==
  [][\A i \in Slots :
       /\ (/\ req[i].pc = "createPost.insert"
           /\ req'[i] # req[i]
           /\ ~req'[i].fault
           /\ ~isNaN(parseInt10(String(req[i].body.userId)))
           /\ String(req[i].body.userId) \notin cache)
          => (/\ req'[i].pc = "createPost.publish"
              /\ \E row \in posts' \ posts :
                   toString(row.userId) = String(req[i].body.userId))
       /\ (/\ req[i].pc = "likePost.insert"
           /\ req'[i] # req[i]
           /\ ~req'[i].fault
           /\ String(req[i].auth) \notin cache
           /\ findPostById(posts, likes, req[i].postId, Undefined) # Undefined
           /\ findLikeByUserAndPost(likes, String(req[i].auth), req[i].postId)
                = Undefined)
          => (/\ req'[i].res.status = 201
              /\ \E row \in likes' \ likes :
                   toString(row.userId) = String(req[i].auth))
       /\ (/\ req[i].pc \in {"createPost.gate", "likePost.gate"}
           /\ req'[i] # req[i]
           /\ ~req'[i].fault
           /\ String(req[i].auth) \in upstream
           /\ String(req[i].auth) \notin cache
           /\ \E k \in 1..Len(topic) :
                topic[k] = Event(Str(UserCreated), req[i].auth, 1))
          => (/\ req'[i].pc = "done"
              /\ req'[i].res.message = "User not found"
              /\ req'[i].res.status \in {400, 404})]_vars

\* a post of user 1 answered 201 and written while the cache held no row of
\* user 1: the removal of the user was handled after the lookup of the gate
PostWrittenAfterRemoval ==
  /\ req[1].pc = "done" /\ req[1].op = "createPost"
  /\ req[1].userExists = "hit" /\ req[1].stale
  /\ req[1].res.status = 201
  /\ <<"1">> \notin upstream /\ <<"1">> \notin cache
  /\ \E row \in posts : row.userId = 1

(* ------------------------------------------------------------------ *)
(* The consumer alone, every message                                    *)
(* ------------------------------------------------------------------ *)
NextIngest == \E m \in Messages, dbOk \in BOOLEAN : ConsumeRecorded(m, dbOk)

SpecIngest == Init /\ [][NextIngest]_vars

\* C1: whatever was delivered before and whatever the timestamps, a user whose
\* last handled event (its write succeeding) was UserCreated or UserUpdated is
\* in the cache, and one whose last handled event was UserDeleted, or who had
\* no event at all, is not.
CacheReflectsLastEvent ==
  \A u \in UserIds :
    /\ lastHandled[u] \in {UserCreated, UserUpdated} => u \in cache
    /\ lastHandled[u] \in {UserDeleted, NotHandled} => u \notin cache

\* one user refreshed, one deleted, one only created, one never heard of
CacheReflectsLastEventWitness ==
  /\ lastHandled[<<"1">>] = UserUpdated /\ <<"1">> \in cache
  /\ lastHandled[<<"2">>] = UserDeleted /\ <<"2">> \notin cache
  /\ lastHandled[<<"1", "a">>] = UserCreated /\ <<"1", "a">> \in cache
  /\ lastHandled[<<"b">>] = NotHandled

TopicMessages ==
  { NoValue, BadJson, Event(Str(UserLocked), Str(<<"1">>), 1),
    Event(Undefined, Str(<<"1">>), 1), Event(Str(UserCreated), Undefined, 1),
    Event(Str(UserCreated), Str(<<>>), 1) }
    \cup { Event(Str(ty), Str(u), 1) : ty \in EventTypes, u \in Owners }

PublishAny == \E m \in TopicMessages : Publish(m)

NextTopic ==
  \/ PublishAny
  \/ \E dbOk \in BOOLEAN : DeliverRecorded(dbOk)

SpecTopic == Init /\ [][NextTopic]_vars

\* C17: when the consumer takes a record with no value, one that is no JSON,
\* or an event without userId or eventType, the cache and the record of
\* handled events stay as they are, the consumer keeps running, and the
\* record leaves the topic: the next one is at its head, nothing is kept
\* for later.
MalformedIsDropped ==
  [][LET m == Head(topic)
     IN (/\ topic # <<>>
         /\ Len(topic') < Len(topic)
         /\ \/ m.kind # "json"
            \/ ~Truthy(m.userId)
            \/ ~Truthy(m.eventType))
        => (/\ cache' = cache
            /\ lastHandled' = lastHandled
            /\ dropped' = m
            /\ topic' = Tail(topic)
            /\ consumer' = "Running")]_vars

\* an event with an empty userId has been dropped after user 1 was cached,
\* and the topic is empty
MalformedIsDroppedWitness ==
  /\ dropped = Event(Str(UserCreated), Str(<<>>), 1)
  /\ cache = {<<"1">>}
  /\ topic = <<>>

\* C18: the consumer dispatches by event type. Whatever the cache holds, an
\* applied UserUpdated of a user leaves the cache that an applied UserCreated
\* of that user leaves, the cache with the user; an applied UserDeleted
\* leaves the cache without the user; an event of any other type leaves the
\* cache as it is.
DispatchByType ==
  [][LET m == Head(topic)
         u == m.userId.v
     IN (/\ topic # <<>>
         /\ Len(topic') < Len(topic)
         /\ m.kind = "json" /\ Truthy(m.userId) /\ Truthy(m.eventType))
        => /\ (m.eventType.v \in {UserCreated, UserUpdated}
                /\ lastHandled'[u] = m.eventType.v)
               => (/\ cache' = cache \cup {u}
                   /\ cache' = Dispatch(cache, Event(Str(UserCreated), m.userId, 1)))
           /\ (m.eventType.v = UserDeleted /\ lastHandled'[u] = UserDeleted)
               => cache' = cache \ {u}
           /\ m.eventType.v \notin EventTypes
               => (cache' = cache /\ lastHandled' = lastHandled)]_vars

\* user 1 is cached through a UserUpdated alone, user 2 was removed, and an
\* event of an unknown type has been dropped
DispatchByTypeWitness ==
  /\ lastHandled[<<"1">>] = UserUpdated /\ <<"1">> \in cache
  /\ lastHandled[<<"2">>] = UserDeleted /\ <<"2">> \notin cache
  /\ dropped = Event(Str(UserLocked), Str(<<"1">>), 1)

\* C19: when the statement of an event fails, the handler catches the
\* failure: the consumer keeps running, the event leaves the topic and is
\* not put back, the cache stays as it was, and the next record is at the
\* head of the topic.
FailedWriteIsSkipped ==
  [][\A u \in UserIds :
       (lastHandled'[u] = WriteFailed /\ lastHandled[u] # WriteFailed)
       => (/\ cache' = cache
           /\ topic' = Tail(topic)
           /\ \A k \in 1..Len(topic') : topic'[k] = topic[k + 1]
           /\ consumer' = "Running")]_vars

\* the write of user 1 failed and the event is gone; the event of user 2
\* that followed it has been applied
FailedWriteIsSkippedWitness ==
  /\ lastHandled[<<"1">>] = WriteFailed /\ <<"1">> \notin cache
  /\ lastHandled[<<"2">>] = UserCreated /\ <<"2">> \in cache
  /\ topic = <<>>

(* ------------------------------------------------------------------ *)
(* startService: the consumer is started, then the producer, then the   *)
(* HTTP server; the user service produces events meanwhile              *)
(* ------------------------------------------------------------------ *)
\* the process when index.ts is loaded: nothing started, empty tables
InitStartup ==
  /\ cache = {}
  /\ posts = {}
  /\ likes = {}
  /\ postSeq = 0
  /\ likeSeq = 0
  /\ published = <<>>
  /\ req = [i \in Slots |-> Idle]
  /\ lastHandled = [u \in UserIds |-> NotHandled]
  /\ deletedPosts = {}
  /\ upstream = {}
  /\ topic = <<>>
  /\ consumer = "Stopped"
  /\ startup = "init"
  /\ listening = FALSE
  /\ dropped = NoDrop
  /\ consumerRef = 0
  /\ clients = <<>>
  /\ calls = [k \in 1..MaxCalls |-> [fn |-> "none", pc |-> "idle"]]

\* the states of the ingestor: consumer is null (Stopped), connect or
\* subscribe is awaited (Connecting), run is awaited (Subscribed), run has
\* resolved (Running)
IngestorState(c) ==
  CASE c \in {"Connecting", "Connected"} -> "Connecting"
    [] OTHER -> c

\* startService calls startUserEventsConsumer: kafka.consumer(), then connect
StartService ==
  /\ startup = "init" /\ consumer = "Stopped"
  /\ startup' = "consumer"
  /\ consumer' = "Connecting"
  /\ UNCHANGED <<dbVars, published, req, lastHandled, deletedPosts, upstream,
                 topic, listening, dropped, ingestor>>

\* a startUserEventsConsumer that logs the failure and returns: startService
\* goes on to the producer without a consumer, and IngestorStartsFirst fails
StartFailedSilently(c) == [consumer |-> "Stopped", startup |-> "producer"]

\* the catch of startUserEventsConsumer: disconnect, consumer = null and
\* throw error, which lands in the catch of startService
StartFailed(c) == [consumer |-> "Stopped", startup |-> "failed"]

\* one awaited step of startUserEventsConsumer resolves or rejects:
\* consumer.connect(), consumer.subscribe(), consumer.run()
StartStep(from, to, ok) ==
  /\ startup = "consumer" /\ consumer = from
  /\ IF ok
     THEN /\ consumer' = to
          /\ startup' = IF to = "Running" THEN "producer" ELSE startup
     ELSE /\ consumer' = StartFailed(from).consumer
          /\ startup' = StartFailed(from).startup
  /\ UNCHANGED <<dbVars, published, req, lastHandled, deletedPosts, upstream,
                 topic, listening, dropped, ingestor>>

Connect(ok) == StartStep("Connecting", "Connected", ok)
Subscribe(ok) == StartStep("Connected", "Subscribed", ok)
Run(ok) == StartStep("Subscribed", "Running", ok)

\* getPostProducer resolves and expressApp.listen is called, or it rejects
StartProducer(ok) ==
  /\ startup = "producer"
  /\ IF ok THEN startup' = "serving" /\ listening' = TRUE
     ELSE startup' = "failed" /\ listening' = listening
  /\ UNCHANGED <<dbVars, published, req, lastHandled, deletedPosts, upstream,
                 topic, consumer, dropped, ingestor>>

\* the catch of startService: stopUserEventsConsumer, disconnectProducer,
\* process.exit(1)
ExitAfterFailedStart ==
  /\ startup = "failed"
  /\ consumer' = "Stopped"
  /\ startup' = "exited"
  /\ UNCHANGED <<dbVars, published, req, lastHandled, deletedPosts, upstream,
                 topic, listening, dropped, ingestor>>

\* SIGTERM or SIGINT: server.close
Shutdown ==
  /\ startup = "serving"
  /\ startup' = "closing"
  /\ listening' = FALSE
  /\ UNCHANGED <<dbVars, published, req, lastHandled, deletedPosts, upstream,
                 topic, consumer, dropped, ingestor>>

\* the last connection has ended and the callback of server.close runs: it
\* awaits stopUserEventsConsumer
ServerClosed ==
  /\ startup = "closing"
  /\ startup' = "stopping"
  /\ UNCHANGED <<dbVars, published, req, lastHandled, deletedPosts, upstream,
                 topic, consumer, listening, dropped, ingestor>>

\* stopUserEventsConsumer: consumer.disconnect(), consumer = null; the
\* callback goes on to disconnectPostProducer
ConsumerStopped ==
  /\ startup = "stopping"
  /\ consumer' = "Stopped"
  /\ startup' = "disconnecting"
  /\ UNCHANGED <<dbVars, published, req, lastHandled, deletedPosts, upstream,
                 topic, listening, dropped, ingestor>>

\* disconnectPostProducer has resolved: process.exit
ExitAfterShutdown ==
  /\ startup = "disconnecting"
  /\ startup' = "exited"
  /\ UNCHANGED <<dbVars, published, req, lastHandled, deletedPosts, upstream,
                 topic, consumer, listening, dropped, ingestor>>

\* the timer shutdown sets: ten seconds after the signal the process is
\* still there, and process.exit(1) ends it as it is
ForcedExit ==
  /\ startup \in {"closing", "stopping", "disconnecting"}
  /\ startup' = "exited"
  /\ consumer' = "Stopped"
  /\ UNCHANGED <<dbVars, published, req, lastHandled, deletedPosts, upstream,
                 topic, listening, dropped, ingestor>>

\* uncaughtException: stopUserEventsConsumer while the server still listens
UncaughtException ==
  /\ startup = "serving"
  /\ consumer' = "Stopped"
  /\ startup' = "crashing"
  /\ UNCHANGED <<dbVars, published, req, lastHandled, deletedPosts, upstream,
                 topic, listening, dropped, ingestor>>

\* ... then disconnectProducer and process.exit(1)
ExitAfterException ==
  /\ startup = "crashing"
  /\ startup' = "exited"
  /\ listening' = FALSE
  /\ UNCHANGED <<dbVars, published, req, lastHandled, deletedPosts, upstream,
                 topic, consumer, dropped, ingestor>>

\* a request of user 1 reaches the controller of a listening server
ReceiveWhenListening(i) == listening /\ ReceiveCreatePostOfOne(i)

\* the handlers run as long as the process does
Serve(i) == startup # "exited" /\ CreatePost(i)

NextStartup ==
  \/ StartService
  \/ \E ok \in BOOLEAN : Connect(ok)
  \/ \E ok \in BOOLEAN : Subscribe(ok)
  \/ \E ok \in BOOLEAN : Run(ok)
  \/ \E ok \in BOOLEAN : StartProducer(ok)
  \/ ExitAfterFailedStart
  \/ Shutdown
  \/ ServerClosed
  \/ ConsumerStopped
  \/ ExitAfterShutdown
  \/ ForcedExit
  \/ UncaughtException
  \/ ExitAfterException
  \/ ProduceOwners
  \/ \E dbOk \in BOOLEAN : Deliver(dbOk)
  \/ ReceiveWhenListening(1)
  \/ Serve(1)

SpecStartup == InitStartup /\ [][NextStartup]_vars

\* C20: the ingestor goes from Stopped to Connecting, from Connecting to
\* Subscribed and from Subscribed to Running, and from anywhere back to
\* Stopped. When it falls back to Stopped before it runs, the failure is in
\* the hands of startService, which does nothing but exit the process, with
\* the HTTP server never started. The HTTP server starts to listen only in a
\* state where the ingestor is Running.
IngestorStartsFirst ==
  [][/\ <<IngestorState(consumer), IngestorState(consumer')>> \in
          { <<"Stopped", "Connecting">>, <<"Connecting", "Connecting">>,
            <<"Connecting", "Subscribed">>, <<"Subscribed", "Running">>,
            <<"Stopped", "Stopped">>, <<"Subscribed", "Subscribed">>,
            <<"Running", "Running">>, <<"Connecting", "Stopped">>,
            <<"Subscribed", "Stopped">>, <<"Running", "Stopped">> }
     /\ (IngestorState(consumer) \in {"Connecting", "Subscribed"}
         /\ consumer' = "Stopped")
        => (startup' = "failed" /\ ~listening')
     /\ (startup = "failed" /\ startup' # "failed")
        => (startup' = "exited" /\ consumer' = "Stopped" /\ ~listening')
     /\ startup = "failed" => (~listening /\ req' = req)
     /\ (~listening /\ listening')
        => (consumer = "Running" /\ consumer' = "Running")
     /\ (req' # req /\ \E i \in Slots : req'[i].pc = "begin")
        => listening]_vars

\* the process has exited after its start failed: the consumer is Stopped,
\* the server never listened and no request was served, while an event of
\* the user service waits in the topic
IngestorStartsFirstWitness ==
  /\ startup = "exited" /\ consumer = "Stopped" /\ ~listening
  /\ req[1].pc = "idle" /\ posts = {}
  /\ topic # <<>>

\* C21 as stated: after SIGTERM or SIGINT the process exits only when the
\* HTTP server is closed, the consumer has been disconnected and the
\* producer has been disconnected, in that order; and the cache changes
\* only while the consumer is Running.
ShutdownInOrder ==
  [][/\ (startup \in {"closing", "stopping", "disconnecting"}
         /\ startup' = "exited")
        => (startup = "disconnecting" /\ consumer = "Stopped" /\ ~listening)
     /\ (startup \in {"closing", "stopping"} /\ consumer' = "Stopped")
        => (startup = "stopping" /\ ~listening)
     /\ cache' # cache => consumer = "Running"]_vars

(* ------------------------------------------------------------------ *)
(* Every HTTP operation, one request at a time, with the consumer       *)
(* handling the events of user 1                                        *)
(* ------------------------------------------------------------------ *)
ReceiveUnlikeOfOwners(i) ==
  \E u \in Owners : Receive(i, "unlikePost", Str(u), toString(1), NoBody)

\* the consumer handles an event of user 1; user 2 is never cached
ConsumeRecordedOfOne ==
  \E ty \in EventTypes, dbOk \in BOOLEAN :
    ConsumeRecorded(Event(Str(ty), Str(<<"1">>), 1), dbOk)

NextHttp ==
  \/ ConsumeRecordedOfOne
  \/ ReceiveCreatePostOfOwner(1)
  \/ ReceiveUpdate(1)
  \/ ReceiveOnPost(1)
  \/ ReceiveLikeOfOwners(1)
  \/ ReceiveUnlikeOfOwners(1)
  \/ CreatePost(1)
  \/ \E dbOk \in BOOLEAN : GetPostById(1, dbOk)
  \/ UpdatePost(1)
  \/ DeletePost(1)
  \/ \E dbOk \in BOOLEAN : LikePostFind(1, dbOk)
  \/ \E dbOk \in BOOLEAN : LikePostGate(1, dbOk)
  \/ \E dbOk \in BOOLEAN : LikePostInsert(1, dbOk)
  \/ \E dbOk \in BOOLEAN : LikePostDuplicate(1, dbOk)
  \/ UnlikePost(1)

SpecHttp == Init /\ [][NextHttp]_vars

\* C22: a userId enters the cache only in a step in which the consumer has
\* handled a UserCreated or UserUpdated event of it, and leaves it only in a
\* step in which the consumer has handled a UserDeleted event of it; a step
\* of an HTTP request (create, read, update, delete, like, unlike) leaves
\* the cache as it is.
OnlyEventsChangeTheCache ==
  [][/\ \A u \in cache' \ cache :
          /\ u \in UserIds
          /\ lastHandled'[u] \in {UserCreated, UserUpdated}
          /\ req' = req
     /\ \A u \in cache \ cache' :
          /\ lastHandled'[u] = UserDeleted
          /\ req' = req
     /\ req' # req => cache' = cache]_vars

\* user 1, cached through a UserUpdated, has posted, liked its post and
\* taken the like back, and the cache holds user 1 and nobody else
OnlyEventsChangeTheCacheWitness ==
  /\ req[1].pc = "done" /\ req[1].op = "unlikePost" /\ req[1].res.status = 204
  /\ req[1].affected = 1
  /\ posts # {} /\ likes = {}
  /\ cache = {<<"1">>} /\ lastHandled[<<"1">>] = UserUpdated

\* C25: a post returned by a read by id carries the number of like rows of
\* that post at the time of the read as likeCount, and hasUserLiked is true
\* exactly when the read has a viewer and a like row of the viewer for the
\* post exists then.
ReadCarriesLikes ==
  [][\A i \in Slots :
       (/\ req[i].pc = "begin" /\ req[i].op = "getPostById"
        /\ req'[i].pc = "done"
        /\ req'[i].res.status = 200)
       => LET post == req'[i].res.body
              ofPost == { l \in likes : toString(l.postId) = post.postId }
          IN /\ post.likeCount = Cardinality(ofPost)
             /\ post.hasUserLiked
                  = (/\ Truthy(req[i].auth)
                     /\ \E l \in ofPost :
                          toString(l.userId) = String(req[i].auth))]_vars

\* C33: a user without a cache row is not stopped by unlikePost: the read of
\* an existing post lets the request through without a lookup of the cache,
\* and the delete removes the like of that user and answers 204.  The gates
\* of likePost and createPost turn the same user away (404 and 400 'User not
\* found') and write nothing.
UnlikeIgnoresTheCache ==
  [][\A i \in Slots :
       (/\ req[i].pc \notin {"idle", "done"}
        /\ req'[i] # req[i] /\ ~req'[i].fault
        /\ String(req[i].auth) \notin cache)
       => /\ (/\ req[i].pc = "begin" /\ req[i].op = "unlikePost"
              /\ \E p \in posts : toString(p.postId) = req[i].postId)
             => (/\ req'[i].pc = "unlikePost.delete"
                 /\ req'[i].userExists = "unset")
          /\ (/\ req[i].pc = "unlikePost.delete"
              /\ \E l \in likes : /\ toString(l.userId) = String(req[i].auth)
                                  /\ toString(l.postId) = req[i].postId)
             => (/\ req'[i].pc = "done"
                 /\ req'[i].res.status = 204
                 /\ req'[i].affected = 1
                 /\ likes' = { l \in likes :
                                 ~(/\ toString(l.userId) = String(req[i].auth)
                                   /\ toString(l.postId) = req[i].postId) })
          /\ req[i].pc = "likePost.gate"
             => (/\ req'[i].pc = "done"
                 /\ req'[i].res.status = 404
                 /\ req'[i].res.message = "User not found"
                 /\ likes' = likes)
          /\ req[i].pc = "createPost.gate"
             => (/\ req'[i].pc = "done"
                 /\ req'[i].res.status = 400
                 /\ req'[i].res.message = "User not found"
                 /\ posts' = posts)]_vars

\* user 1 was deleted upstream after having liked post 1, and has removed
\* that like since
UnlikeIgnoresTheCacheWitness ==
  /\ req[1].pc = "done" /\ req[1].op = "unlikePost"
  /\ req[1].auth = Str(<<"1">>)
  /\ req[1].res.status = 204 /\ req[1].affected = 1
  /\ cache = {} /\ lastHandled[<<"1">>] = UserDeleted
  /\ posts # {} /\ likes = {} /\ likeSeq = 1

\* C34: the step that handles an event of the topic changes the cache and
\* nothing else: posts, likes and requests stay as they are.  After
\* UserDeleted of a user, the posts of that user are still read (200), and
\* the user still passes the ownership check of an update and of a deletion
\* of their own post, which then change and remove the row.
UserDeletedChangesOnlyTheCache ==
  [][/\ (cache' # cache \/ lastHandled' # lastHandled)
        => (/\ posts' = posts /\ likes' = likes /\ req' = req
            /\ postSeq' = postSeq /\ likeSeq' = likeSeq
            /\ published' = published)
     /\ \A i \in Slots :
          (/\ req[i].pc \notin {"idle", "done"}
           /\ req'[i] # req[i] /\ ~req'[i].fault
           /\ \E p \in posts :
                /\ toString(p.postId) = req[i].postId
                /\ toString(p.userId) \notin cache
                /\ lastHandled[toString(p.userId)] = UserDeleted
                /\ req[i].op = "getPostById" \/ toString(p.userId) = String(req[i].auth))
          => /\ req[i].op = "getPostById"
                => (/\ req'[i].res.status = 200
                    /\ req'[i].res.body.postId = req[i].postId)
             /\ (/\ req[i].pc = "begin" /\ req[i].op = "updatePost"
                 /\ req[i].body.title # Undefined)
                => req'[i].pc = "updatePost.update"
             /\ req[i].pc = "updatePost.update"
                => (/\ req'[i].affected = 1
                    /\ \E p \in posts' : /\ toString(p.postId) = req[i].postId
                                         /\ p.title = req[i].body.title.v)
             /\ req[i].pc = "updatePost.refetch"
                => (/\ req'[i].res.status = 200
                    /\ req'[i].res.body # Undefined)
             /\ (req[i].pc = "begin" /\ req[i].op = "deletePost")
                => req'[i].pc = "deletePost.likes"
             /\ req[i].pc = "deletePost.commit"
                => (/\ req'[i].res.status = 204
                    /\ \A p \in posts' : toString(p.postId) # req[i].postId)]_vars

\* user 1 was deleted upstream and has deleted their own post afterwards
UserDeletedChangesOnlyTheCacheWitness ==
  /\ req[1].pc = "done" /\ req[1].op = "deletePost"
  /\ req[1].auth = Str(<<"1">>)
  /\ req[1].res.status = 204 /\ req[1].affected = 1
  /\ cache = {} /\ lastHandled[<<"1">>] = UserDeleted
  /\ 1 \in deletedPosts

(* ------------------------------------------------------------------ *)
(* POST /posts with any body: fields left out, an empty title, a userId *)
(* sent as a number, with or without an authenticated user              *)
(* ------------------------------------------------------------------ *)
AnyAuths == { Undefined } \cup { Str(u) : u \in Owners }
AnyBodies ==
  [userId : { Undefined, NumV(1) } \cup { Str(u) : u \in Owners },
   title : { Undefined, Str(<<>>), Str(<<"T">>) },
   content : { Undefined, Str(<<"C">>) }]

ReceiveAnyCreatePost(i) ==
  \E auth \in AnyAuths, body \in AnyBodies :
    Receive(i, "createPost", auth, <<>>, body)

NextCreate ==
  \/ ConsumeOwners
  \/ ReceiveAnyCreatePost(1)
  \/ CreatePost(1)

SpecCreate == Init /\ [][NextCreate]_vars

\* C23: an authenticated createPost whose body names another userId than the
\* authenticated one (or none; the two are compared as strings) is answered
\* 403 by its first step, whatever the cache holds: the request holds no post and has sent no event, and the
\* step changes neither the posts nor the published events.
MismatchIsForbidden ==
  [][\A i \in Slots :
       (/\ req[i].pc = "begin" /\ req[i].op = "createPost"
        /\ req'[i] # req[i]
        /\ Truthy(req[i].auth)
        /\ String(req[i].body.userId) # String(req[i].auth))
       => (/\ req'[i].pc = "done"
           /\ req'[i].res.status = 403
           /\ req'[i].res.body = Undefined
           /\ req'[i].created = Undefined
           /\ ~req'[i].sent
           /\ posts' = posts
           /\ postSeq' = postSeq
           /\ published' = published)]_vars

\* user 1 answered 403 for a post of another user while both users are cached
MismatchIsForbiddenWitness ==
  /\ req[1].pc = "done" /\ req[1].op = "createPost"
  /\ req[1].auth = Str(<<"1">>)
  /\ req[1].res = [status |-> 403,
                   message |-> "Forbidden: Cannot create post for another user",
                   body |-> Undefined]
  /\ cache = Owners
  /\ posts = {} /\ published = <<>>

\* C24: an authenticated createPost whose body lacks userId, title or content
\* is answered 400 'Missing required fields: userId, title, content' by its
\* first step, which creates no post.
MissingFieldIsBadRequest ==
  [][\A i \in Slots :
       (/\ req[i].pc = "begin" /\ req[i].op = "createPost"
        /\ req'[i] # req[i]
        /\ Truthy(req[i].auth)
        /\ \/ req[i].body.userId = Undefined
           \/ req[i].body.title = Undefined
           \/ req[i].body.content = Undefined)
       => (/\ req'[i].pc = "done"
           /\ req'[i].res = [status |-> 400,
                             message |-> "Missing required fields: userId, title, content",
                             body |-> Undefined]
           /\ posts' = posts
           /\ postSeq' = postSeq)]_vars

(* ------------------------------------------------------------------ *)
(* Requests that are turned away: any createPost, and updates, reads    *)
(* and deletions of the posts by their author or by the other user      *)
(* ------------------------------------------------------------------ *)
NextGuarded ==
  \/ ConsumeOwners
  \/ ReceiveAnyCreatePost(1)
  \/ ReceiveUpdate(1)
  \/ ReceiveOnPost(1)
  \/ CreatePost(1)
  \/ \E dbOk \in BOOLEAN : GetPostById(1, dbOk)
  \/ UpdatePost(1)
  \/ DeletePost(1)

SpecGuarded == Init /\ [][NextGuarded]_vars

MissingFields == "Missing required fields: userId, title, content"

\* a request answered 403, or 400 for missing fields
Rejected(r) ==
  /\ r.pc = "done"
  /\ r.res.status = 403 \/ r.res.message = MissingFields

\* C27 as stated: a request rejected for missing fields, for a userId that is
\* not the authenticated one, or for not being the author of the post it
\* updates or deletes, has issued no storage read and no storage write.
RejectedNeverReachesStorage ==
  \A i \in Slots :
    Rejected(req[i])
    => (/\ req[i].existing = Unset
        /\ req[i].userExists = "unset"
        /\ req[i].created = Undefined
        /\ req[i].affected = 0
        /\ ~req[i].fault)

\* C27, amended: a request is rejected by its first step, which writes
\* nothing. A createPost rejected for missing fields or for its userId has
\* issued no storage read; an update or a deletion rejected with 403 has
\* issued one, the lookup of the post, which showed another author than the
\* requester.
ForbiddenAfterOneRead ==
  [][\A i \in Slots :
       (Rejected(req'[i]) /\ req'[i] # req[i])
       => (/\ req[i].pc = "begin"
           /\ <<posts', likes', cache', postSeq', likeSeq', published'>>
                = <<posts, likes, cache, postSeq, likeSeq, published>>
           /\ req'[i].userExists = "unset"
           /\ req'[i].created = Undefined
           /\ req'[i].affected = 0
           /\ ~req'[i].fault
           /\ req'[i].op = "createPost" => req'[i].existing = Unset
           /\ req'[i].op \in {"updatePost", "deletePost"}
                => (/\ req'[i].existing \notin {Unset, Undefined}
                    /\ req'[i].existing # req'[i].auth
                    /\ \E row \in posts :
                         /\ toString(row.postId) = req'[i].postId
                         /\ Str(toString(row.userId)) = req'[i].existing))]_vars

\* user 2 is refused the deletion of the post of user 1, which is still there
ForbiddenAfterOneReadWitness ==
  /\ req[1].pc = "done" /\ req[1].op = "deletePost"
  /\ req[1].auth = Str(<<"2">>)
  /\ req[1].res.status = 403
  /\ req[1].existing = Str(<<"1">>)
  /\ \E row \in posts : toString(row.postId) = req[1].postId /\ row.userId = 1

(* ------------------------------------------------------------------ *)
(* Requests addressed to any postId: the id of a post, one that no post *)
(* has, and texts that are no decimal number                            *)
(* ------------------------------------------------------------------ *)
AddressedIds == PostIds \cup { <<"1", "a">>, <<"x">> }
OnPostOps ==
  {"getPostById", "updatePost", "deletePost", "likePost", "unlikePost",
   "getLikeCount"}

ReceiveAddressed(i) ==
  \E u \in Owners, postId \in AddressedIds, op \in OnPostOps, body \in UpdateBodies :
    /\ op # "updatePost" => body = NoBody
    /\ Receive(i, op, Str(u), postId, body)

GetLikeCount(i) ==
  \/ \E dbOk \in BOOLEAN : GetLikeCountFind(i, dbOk)
  \/ \E dbOk \in BOOLEAN : GetLikeCountCount(i, dbOk)

\* the events of user 1: user 2 is never cached and stays without a post
ConsumeOfOne ==
  \E m \in Lifecycle({<<"1">>}), dbOk \in BOOLEAN : handleUserLifecycleEvent(m, dbOk)

NextAddressed ==
  \/ ConsumeOfOne
  \/ ReceiveCreatePostOfOwner(1)
  \/ ReceiveAddressed(1)
  \/ CreatePost(1)
  \/ \E dbOk \in BOOLEAN : GetPostById(1, dbOk)
  \/ UpdatePost(1)
  \/ DeletePost(1)
  \/ \E dbOk \in BOOLEAN : LikePostFind(1, dbOk)
  \/ \E dbOk \in BOOLEAN : LikePostGate(1, dbOk)
  \/ \E dbOk \in BOOLEAN : LikePostInsert(1, dbOk)
  \/ \E dbOk \in BOOLEAN : LikePostDuplicate(1, dbOk)
  \/ UnlikePost(1)
  \/ GetLikeCount(1)

SpecAddressed == Init /\ [][NextAddressed]_vars

\* C28: a read, update, deletion, like, unlike or like count addressed to a
\* postId that no post has is answered 404 'Post not found' by its first
\* step (when no storage call fails), and that step changes no post, no like
\* and no cache row.
AbsentPostIsNotFound ==
  [][\A i \in Slots :
       (/\ req[i].pc = "begin" /\ req[i].op \in OnPostOps
        /\ req'[i] # req[i]
        /\ ~req'[i].fault
        /\ \A row \in posts : toString(row.postId) # req[i].postId)
       => (/\ req'[i].pc = "done"
           /\ req'[i].res = [status |-> 404, message |-> "Post not found",
                             body |-> Undefined]
           /\ posts' = posts /\ likes' = likes /\ cache' = cache)]_vars

(* ------------------------------------------------------------------ *)
(* Updates and deletions of post 1 by concurrent requests               *)
(* ------------------------------------------------------------------ *)
NextRace ==
  \/ ConsumeOfOne
  \/ ReceiveCreatePostOfOne(1)
  \/ CreatePost(1)
  \/ \E i \in Slots :
       \/ ReceiveUpdate(i)
       \/ ReceiveDelete(i)
       \/ UpdatePost(i)
       \/ DeletePost(i)

SpecRace == Init /\ [][NextRace]_vars

\* C30: an update that PostService.updatePost ends without throwing (the
\* controller answers 200) returns a post, also when a deletion of the same
\* post commits between the ownership check and the update.
UpdateReturnsAPost ==
  \A i \in Slots :
    (/\ req[i].pc = "done" /\ req[i].op = "updatePost"
     /\ req[i].res.status = 200)
    => req[i].res.body # Undefined

\* C31: a deletion that PostService.deletePost ends without throwing (the
\* controller answers 204) has removed the row of the post itself, also when
\* two deletions of the same post by its author run concurrently.
DeleteReturnsTrue ==
  \A i \in Slots :
    (/\ req[i].pc = "done" /\ req[i].op = "deletePost"
     /\ req[i].res.status = 204)
    => req[i].affected = 1

(* ------------------------------------------------------------------ *)
(* The post an update returns, against a read of the same post          *)
(* ------------------------------------------------------------------ *)
\* C35: the post a successful update returns carries the likeCount and the
\* hasUserLiked that a read of the post by the service returns in the state
\* in which the update is answered.
UpdateReturnsTheLikes ==
  [][\A i \in Slots :
       (/\ req[i].pc = "updatePost.refetch"
        /\ req'[i].pc = "done"
        /\ req'[i].res.status = 200
        /\ req'[i].res.body # Undefined)
       => LET read == ServiceFindPostById(posts', likes', req[i].postId, req[i].auth)
          IN /\ read # Undefined
             /\ req'[i].res.body.likeCount = read.likeCount
             /\ req'[i].res.body.hasUserLiked = read.hasUserLiked]_vars


(* ------------------------------------------------------------------ *)
(* The consumer module on its own: startUserEventsConsumer and          *)
(* stopUserEventsConsumer called at any time, each call running from    *)
(* one await to the next                                                *)
(* ------------------------------------------------------------------ *)
Callers == 1..MaxCalls

\* states of a consumer that is connected or on its way to be
Live == {"Connecting", "Connected", "Subscribed", "Running"}

\* a caller has no call in flight
Free(k) == calls[k].pc \in {"idle", "done"}

\* a call suspended at an await on a method of consumer number on
Awaiting(fn, pc, on) == [fn |-> fn, pc |-> pc, on |-> on]

\* a call that has returned or thrown
Ended(fn, outcome) == [fn |-> fn, pc |-> "done", outcome |-> outcome]

\* the state of the ingestor: that of the consumer the variable refers to
Referred(ref, cs) == IF ref = 0 THEN "Stopped" ELSE cs[ref]

\* connect(), subscribe() or run() resolves on a consumer: it moves on when it
\* was in the state the method starts from
Resolved(cs, on, from, to) ==
  IF cs[on] = from THEN [cs EXCEPT ![on] = to] ELSE cs

\* disconnect() settles on a consumer: resolved it is disconnected, rejected
\* nothing is known of a consumer that was live
Disconnect(cs, on, ok) ==
  [cs EXCEPT ![on] = IF ok \/ cs[on] = "Disconnected" THEN "Disconnected"
                     ELSE "Unknown"]

ConsumerFrame ==
  UNCHANGED <<dbVars, published, req, lastHandled, deletedPosts, upstream,
              topic, startup, listening, dropped>>

\* startUserEventsConsumer up to its first await: return when consumer is
\* set, else consumer = kafka.consumer(...) and await consumer.connect()
StartUserEventsConsumer(k) ==
  /\ Free(k)
  /\ IF consumerRef # 0
     THEN /\ calls' = [calls EXCEPT ![k] = Ended("start", "already")]
          /\ UNCHANGED <<consumerRef, clients>>
     ELSE /\ Len(clients) < MaxClients
          /\ clients' = Append(clients, "Connecting")
          /\ consumerRef' = Len(clients) + 1
          /\ calls' = [calls EXCEPT
                         ![k] = Awaiting("start", "connect", Len(clients) + 1)]
  /\ consumer' = Referred(consumerRef', clients')
  /\ ConsumerFrame

\* the statement after a resolved await, consumer.subscribe(...) or
\* consumer.run(...), on the consumer the variable refers to by then; on null
\* the TypeError lands in the catch, which has nothing to disconnect
ThenAwait(pc, ref) ==
  IF ref = 0 THEN Ended("start", "threw") ELSE Awaiting("start", pc, ref)

\* the catch of startUserEventsConsumer: if (consumer) await
\* consumer.disconnect(), then throw error
Catch(ref) ==
  IF ref = 0 THEN Ended("start", "threw")
  ELSE Awaiting("start", "failing", ref)

\* an awaited connect(), subscribe() or run() of a start call settles
StartAwaited(k, ok) ==
  /\ calls[k].fn = "start" /\ calls[k].pc \in {"connect", "subscribe", "run"}
  /\ LET c == calls[k]
         from == CASE c.pc = "connect" -> "Connecting"
                   [] c.pc = "subscribe" -> "Connected"
                   [] OTHER -> "Subscribed"
         to == CASE c.pc = "connect" -> "Connected"
                 [] c.pc = "subscribe" -> "Subscribed"
                 [] OTHER -> "Running"
         after == CASE c.pc = "connect" -> ThenAwait("subscribe", consumerRef)
                    [] c.pc = "subscribe" -> ThenAwait("run", consumerRef)
                    [] OTHER -> Ended("start", "returned")
     IN /\ clients' = IF ok THEN Resolved(clients, c.on, from, to) ELSE clients
        /\ calls' = [calls EXCEPT
                       ![k] = IF ok THEN after ELSE Catch(consumerRef)]
  /\ UNCHANGED consumerRef
  /\ consumer' = Referred(consumerRef', clients')
  /\ ConsumerFrame

\* the disconnect() of the catch settles, its own failure only logged:
\* consumer = null and throw error
StartFailing(k, ok) ==
  /\ calls[k].fn = "start" /\ calls[k].pc = "failing"
  /\ clients' = Disconnect(clients, calls[k].on, ok)
  /\ consumerRef' = 0
  /\ calls' = [calls EXCEPT ![k] = Ended("start", "threw")]
  /\ consumer' = Referred(consumerRef', clients')
  /\ ConsumerFrame

\* stopUserEventsConsumer up to its await: nothing to do without a consumer,
\* else await consumer.disconnect()
StopUserEventsConsumer(k) ==
  /\ Free(k)
  /\ calls' = [calls EXCEPT
                 ![k] = IF consumerRef = 0 THEN Ended("stop", "noop")
                        ELSE Awaiting("stop", "disconnect", consumerRef)]
  /\ UNCHANGED <<consumerRef, clients, consumer>>
  /\ ConsumerFrame

\* a stop that keeps the reference when disconnect() throws
ClearedWhenDisconnected(ref, ok) == IF ok THEN 0 ELSE ref

\* finally { consumer = null }
Cleared(ref, ok) == 0

\* the disconnect() of a stop call settles: a rejection is caught and logged,
\* the finally clears the variable, the call returns
StopAwaited(k, ok) ==
  /\ calls[k].fn = "stop" /\ calls[k].pc = "disconnect"
  /\ clients' = Disconnect(clients, calls[k].on, ok)
  /\ consumerRef' = Cleared(consumerRef, ok)
  /\ calls' = [calls EXCEPT
                 ![k] = Ended("stop", IF ok THEN "returned" ELSE "swallowed")]
  /\ consumer' = Referred(consumerRef', clients')
  /\ ConsumerFrame

NextConsumer ==
  \E k \in Callers :
    \/ StartUserEventsConsumer(k)
    \/ StopUserEventsConsumer(k)
    \/ \E ok \in BOOLEAN : StartAwaited(k, ok)
    \/ \E ok \in BOOLEAN : StartFailing(k, ok)
    \/ \E ok \in BOOLEAN : StopAwaited(k, ok)

SpecConsumer == InitStartup /\ [][NextConsumer]_vars

StopLeavesStopped ==
  [][\A k \in Callers :
       /\ (calls[k].fn = "stop" /\ calls[k].pc = "disconnect"
           /\ calls'[k] # calls[k])
            => /\ consumerRef' = 0 /\ consumer' = "Stopped"
               /\ calls'[k].pc = "done"
               /\ calls'[k].outcome \in {"returned", "swallowed"}
       /\ (Free(k) /\ calls'[k] # calls[k] /\ consumerRef = 0
           /\ calls'[k].fn = "stop")
            => /\ calls'[k] = Ended("stop", "noop")
               /\ UNCHANGED <<consumerRef, clients, consumer>>
       /\ (Free(k) /\ calls'[k] # calls[k] /\ consumerRef = 0
           /\ calls'[k].fn = "start")
            => /\ clients' = Append(clients, "Connecting")
               /\ consumerRef' = Len(clients')
               /\ consumer' = "Connecting"
               /\ calls'[k] = Awaiting("start", "connect", Len(clients'))
    ]_vars

\* a stop has swallowed the failure of disconnect() and returned, and the
\* start called after it awaits the connect() of a second consumer
StopLeavesStoppedWitness ==
  /\ Len(clients) = 2 /\ clients[1] = "Unknown"
  /\ consumerRef = 2 /\ consumer = "Connecting"
  /\ \E k, j \in Callers :
       /\ calls[k] = Ended("stop", "swallowed")
       /\ calls[j] = Awaiting("start", "connect", 2)
====
